---- MODULE Spec2Model ----
(***************************************************************************)
(* A model of MiniReact's fiber work loop (core/fiber.js), reconciler      *)
(* (core/reconciler.js), commit engine (core/commit.js) and the useState   *)
(* and useEffect hooks, driven by a small family of applications.          *)
(*                                                                         *)
(* JavaScript runs one handler at a time.  The variable pc records where   *)
(* the running handler is: "idle" (no handler runs; the host may deliver   *)
(* an idle callback, or the application may call render or a state         *)
(* setter), "loop" (inside workLoop's while loop, between two units) and   *)
(* "effects" (inside runEffects, between two callbacks).  While pc is not  *)
(* "idle" only the running handler takes steps.                            *)
(***************************************************************************)
EXTENDS Integers, Sequences, FiniteSets, TLC

\* ------------------------------------------------------------------ bounds
MaxCount == 2          \* state values range over 0..MaxCount
MaxQueue == 2          \* setter calls queued between two renders of a component
MaxFibers == 18        \* size of the fiber heap
MaxDom == 15           \* size of the output-node heap (containers included)
MaxTokens == 7         \* cleanup closures alive at one time
BumpLimit == 1          \* the application's effect bumps the state below this value
MaxCalls == 3          \* calls the application makes from outside the library
MaxMemo == 6           \* values computed by useMemo and not yet unreachable
MaxRefs == 3           \* ref objects created by useRef and not yet unreachable
MaxInst == 4           \* class-component instances alive at one time
NumContainers == 2     \* containers the application renders into
MaxKids == 2           \* children handed to the keyed reconciler
MaxKey == 2            \* the keys of those children range over 1..MaxKey

NULL == 0
STALE == -1            \* a non-null pointer to a unit of an abandoned pass
UNSET == -1            \* absent map entry / absent attribute

FiberIds == 1..MaxFibers
DomIds == 1..MaxDom
Containers == 1..NumContainers
Tokens == 1..MaxTokens
RefIds == 1..MaxRefs
InstIds == 1..MaxInst
\* the components that hold a state cell: A and B call useState, R calls
\* useReducer
CompTypes == {"A", "B", "R"}

\* the contexts the application creates, the Provider component of each and
\* the component that reads the Theme context
Contexts == {"Theme", "User"}
ProviderOf == [c \in Contexts |-> IF c = "Theme" THEN "ThemeProvider" ELSE "UserProvider"]
Providers == {ProviderOf[c] : c \in Contexts}
ContextOf(t) == CHOOSE c \in Contexts : ProviderOf[c] = t
Consumers == {"C"}
\* the class components (type.prototype.render exists)
ClassTypes == {"K"}
\* the components that return a prop: L returns props.items, an array, and
\* W returns props.item, an element or null
ListTypes == {"L", "W"}

\* ---------------------------------------------------------------- elements
\* An element {type, props}: props.children is kids; for a text element val is
\* props.nodeValue, for a host element it is props.className (UNSET: no such
\* prop).  A component element carries the configuration its body reads:
\* has/deps/onCount give the dependency list handed to useEffect, bump says
\* whether the effect body calls the state setter.  key is props.key (UNSET:
\* no such prop); the application's keys are numbers.  fail says what of the
\* component throws: nothing ("no"), its body ("render"), its effect body
\* ("effect") or the cleanup its effect returns ("cleanup").  derive says
\* whether the body itself calls the state setter.
NullEl ==
  [type |-> "NULL", has |-> FALSE, deps |-> <<>>, onCount |-> FALSE,
   bump |-> FALSE, val |-> UNSET, kids |-> <<>>, key |-> UNSET,
   fail |-> "no", derive |-> FALSE]

Text(v) == [NullEl EXCEPT !.type = "TEXT", !.val = v]

Host(t, v, ks) == [NullEl EXCEPT !.type = t, !.val = v, !.kids = ks]

Comp(t, has, deps, onCount, bump) ==
  [NullEl EXCEPT !.type = t, !.has = has, !.deps = deps, !.onCount = onCount,
                 !.bump = bump]

\* createElement(type, {key, ...props}, ...children)
Keyed(el, k) == [el EXCEPT !.key = k]

\* a component element whose body, effect or cleanup throws
Failing(el, what) == [el EXCEPT !.fail = what]

\* createElement(K, {text: v})
Klass(v) == [NullEl EXCEPT !.type = "K", !.val = v]

\* createElement(L, {items}) and createElement(W, {item})
Lst(items) == [NullEl EXCEPT !.type = "L", !.kids = items]
Wrap(item) == [NullEl EXCEPT !.type = "W", !.kids = <<item>>]

IsFunction(t) ==
  t \in CompTypes \cup Providers \cup Consumers \cup ClassTypes \cup ListTypes

Truthy(el) == el.type # "NULL"

\* ------------------------------------------------------------------- heaps
FreeFiber ==
  [type |-> "FREE", el |-> NullEl, dom |-> NULL, parent |-> NULL,
   child |-> NULL, sibling |-> NULL, alternate |-> NULL, effectTag |-> "NONE",
   hooks |-> <<>>, contextProviders |-> [c \in Contexts |-> UNSET],
   instance |-> NULL]

\* an instance of K: its props.text and the field its constructor sets
FreeInst == [made |-> FALSE, props |-> UNSET, first |-> UNSET]

NewInst(insts) ==
  CHOOSE i \in InstIds :
    /\ ~insts[i].made
    /\ \A j \in InstIds : j < i => insts[j].made

FreeDom == [tag |-> "FREE", val |-> UNSET, kids |-> <<>>]

NewFiber(fibs) ==
  CHOOSE i \in FiberIds :
    /\ fibs[i].type = "FREE"
    /\ \A j \in FiberIds : j < i => fibs[j].type # "FREE"

NewDom(doms) ==
  CHOOSE i \in DomIds :
    /\ doms[i].tag = "FREE"
    /\ \A j \in DomIds : j < i => doms[j].tag # "FREE"

\* ------------------------------------------------------------- output tree
Without(s, x) == SelectSeq(s, LAMBDA y : y # x)

InSeq(s, x) == \E i \in 1..Len(s) : s[i] = x

\* parentNode.removeChild(child) on every node that holds it
Detach(doms, c) == [p \in DomIds |-> [doms[p] EXCEPT !.kids = Without(@, c)]]

\* parent.appendChild(child): the child leaves its present parent and becomes
\* the last child
AppendChild(doms, p, c) ==
  LET d1 == Detach(doms, c) IN [d1 EXCEPT ![p].kids = Append(@, c)]

RECURSIVE Contains(_, _, _)
Contains(doms, p, n) ==
  \/ p = n
  \/ \E i \in 1..Len(doms[p].kids) : Contains(doms, doms[p].kids[i], n)

\* updateDom(dom, prevProps, nextProps) restricted to the one modelled prop:
\* the text node's nodeValue, the host node's className
UpdateDom(doms, d, prevVal, nextVal) ==
  IF prevVal # nextVal THEN [doms EXCEPT ![d].val = nextVal] ELSE doms

\* createDom(fiber): a detached node with the initial props applied
CreateDom(doms, f) ==
  LET d == NewDom(doms)
      blank == [doms EXCEPT ![d] = [tag |-> f.type, val |-> UNSET, kids |-> <<>>]]
  IN [id |-> d, doms |-> UpdateDom(blank, d, UNSET, f.el.val)]

\* the dom of the nearest ancestor that has one (NULL: none)
RECURSIVE DomParentOf(_, _)
DomParentOf(fibs, f) ==
  LET p == fibs[f].parent IN
  IF p = NULL THEN NULL
  ELSE IF fibs[p].dom # NULL THEN fibs[p].dom
  ELSE DomParentOf(fibs, p)

\* ------------------------------------------------------------- reconciler
\* m is the memory a unit of work reads and writes:
\*   fibs  the fiber heap            doms  the output-node heap
\*   hs    hookStates (useState.js)  qs    updateQueues (useState.js)
\*   dels  window.minireact.deletions (null and [] are not told apart)
\*   err   an exception is propagating
\*   passed  per hook key, the actions handed to the setter since the
\*           component last read the cell
\*   seen    per hook key, what the component's last read of the cell found:
\*           the value before (prev), the actions handed to the setter since
\*           the read before (batch), the value read (got) and whether a
\*           slice of the work loop ran between two of those calls (gap)
\*   gap     per hook key: 0, or 1 once a slice of the work loop has begun
\*           since the last of the calls in passed, or 2 once a further
\*           call has followed such a slice
RECURSIVE ReconcileLoop(_, _, _, _, _, _)
ReconcileLoop(m, w, elements, i, oldFiber, prevSibling) ==
  IF ~(i <= Len(elements) \/ oldFiber # NULL) THEN m
  ELSE
    LET element == IF i <= Len(elements) THEN elements[i] ELSE NullEl
        old == m.fibs[IF oldFiber = NULL THEN 1 ELSE oldFiber]
        sameType == oldFiber # NULL /\ Truthy(element) /\ element.type = old.type
        made == sameType \/ Truthy(element)
        id == NewFiber(m.fibs)
        rec == IF sameType
               THEN [FreeFiber EXCEPT !.type = old.type, !.el = element,
                                      !.dom = old.dom, !.parent = w,
                                      !.alternate = oldFiber,
                                      !.effectTag = "UPDATE"]
               ELSE [FreeFiber EXCEPT !.type = element.type, !.el = element,
                                      !.parent = w, !.effectTag = "PLACEMENT"]
        newFiber == IF made THEN id ELSE NULL
        fibs1 == IF made THEN [m.fibs EXCEPT ![id] = rec] ELSE m.fibs
        gone == oldFiber # NULL /\ ~sameType
        fibs2 == IF gone THEN [fibs1 EXCEPT ![oldFiber].effectTag = "DELETION"]
                 ELSE fibs1
        dels2 == IF gone THEN Append(m.dels, oldFiber) ELSE m.dels
        nextOld == IF oldFiber # NULL THEN old.sibling ELSE NULL
        \* prevSibling.sibling = newFiber with prevSibling null: a TypeError
        throws == i > 1 /\ Truthy(element) /\ prevSibling = NULL
        fibs3 == IF i = 1 THEN [fibs2 EXCEPT ![w].child = newFiber]
                 ELSE IF Truthy(element) /\ ~throws
                      THEN [fibs2 EXCEPT ![prevSibling].sibling = newFiber]
                      ELSE fibs2
        m3 == [m EXCEPT !.fibs = fibs3, !.dels = dels2]
    IN IF throws THEN [m3 EXCEPT !.err = TRUE]
       ELSE ReconcileLoop(m3, w, elements, i + 1, nextOld, newFiber)

\* a variant that does not look at the previous children
reconcileChildren_fresh(m, w, elements) ==
  ReconcileLoop(m, w, elements, 1, NULL, NULL)

\* a variant that tags the replaced children but does not list them
reconcileChildren_unlisted(m, w, elements) ==
  LET alt == m.fibs[w].alternate
      oldFiber == IF alt # NULL THEN m.fibs[alt].child ELSE NULL
  IN [ReconcileLoop(m, w, elements, 1, oldFiber, NULL) EXCEPT !.dels = m.dels]

reconcileChildren(m, w, elements) ==
  LET alt == m.fibs[w].alternate
      oldFiber == IF alt # NULL THEN m.fibs[alt].child ELSE NULL
  IN ReconcileLoop(m, w, elements, 1, oldFiber, NULL)

\* reconcileChildrenWithKeys.  oldFiberMap is a sequence of entries
\* [key, fiber] in insertion order (a Map keeps the place of a key that is
\* set again); the key of a child without props.key is its index.
MapGet(map, key) ==
  IF \E n \in 1..Len(map) : map[n].key = key
  THEN map[CHOOSE n \in 1..Len(map) : map[n].key = key].fiber
  ELSE NULL

MapSet(map, key, f) ==
  IF \E n \in 1..Len(map) : map[n].key = key
  THEN [n \in 1..Len(map) |->
          IF map[n].key = key THEN [key |-> key, fiber |-> f] ELSE map[n]]
  ELSE Append(map, [key |-> key, fiber |-> f])

\* a variant that leaves a matched entry in the lookup
MapDelete_keep(map, key) == map

MapDelete(map, key) == SelectSeq(map, LAMBDA e : e.key # key)

\* element?.props?.key ?? index, with index counted from 0
KeyOf(el, index) == IF el.key # UNSET THEN el.key ELSE index

RECURSIVE OldFiberMap(_, _, _, _)
OldFiberMap(fibs, temp, tempIndex, map) ==
  IF temp = NULL THEN map
  ELSE OldFiberMap(fibs, fibs[temp].sibling, tempIndex + 1,
                   MapSet(map, KeyOf(fibs[temp].el, tempIndex), temp))

\* oldFiberMap.forEach: what is left is tagged DELETION and listed
RECURSIVE DeleteRest(_, _, _)
DeleteRest(m, map, n) ==
  IF n > Len(map) THEN m
  ELSE DeleteRest([m EXCEPT !.fibs[map[n].fiber].effectTag = "DELETION",
                            !.dels = Append(@, map[n].fiber)], map, n + 1)

RECURSIVE KeyedLoop(_, _, _, _, _, _)
KeyedLoop(m, w, elements, i, map, prevSibling) ==
  IF i > Len(elements) THEN DeleteRest(m, map, 1)
  ELSE
    LET element == elements[i]
        elementKey == KeyOf(element, i - 1)
        matchingOldFiber == MapGet(map, elementKey)
        old == m.fibs[IF matchingOldFiber = NULL THEN 1 ELSE matchingOldFiber]
        sameType == /\ matchingOldFiber # NULL
                    /\ Truthy(element)
                    /\ element.type = old.type
        made == sameType \/ Truthy(element)
        id == NewFiber(m.fibs)
        rec == IF sameType
               THEN [FreeFiber EXCEPT !.type = old.type, !.el = element,
                                      !.dom = old.dom, !.parent = w,
                                      !.alternate = matchingOldFiber,
                                      !.effectTag = "UPDATE"]
               ELSE [FreeFiber EXCEPT !.type = element.type, !.el = element,
                                      !.parent = w, !.effectTag = "PLACEMENT"]
        newFiber == IF made THEN id ELSE NULL
        fibs1 == IF made THEN [m.fibs EXCEPT ![id] = rec] ELSE m.fibs
        map1 == IF sameType THEN MapDelete(map, elementKey) ELSE map
        \* prevSibling.sibling = newFiber with prevSibling null: a TypeError
        throws == i > 1 /\ prevSibling = NULL
        fibs2 == IF i = 1 THEN [fibs1 EXCEPT ![w].child = newFiber]
                 ELSE IF ~throws
                      THEN [fibs1 EXCEPT ![prevSibling].sibling = newFiber]
                      ELSE fibs1
        m2 == [m EXCEPT !.fibs = fibs2]
    IN IF throws THEN [m2 EXCEPT !.err = TRUE]
       ELSE KeyedLoop(m2, w, elements, i + 1, map1, newFiber)

reconcileChildrenWithKeys(m, w, elements) ==
  LET alt == m.fibs[w].alternate
      oldFiber == IF alt # NULL THEN m.fibs[alt].child ELSE NULL
  IN KeyedLoop(m, w, elements, 1, OldFiberMap(m.fibs, oldFiber, 0, <<>>), NULL)

\* a variant that attaches a node to the tree as soon as it is created
updateHostComponent_attaching(m, f) ==
  LET fib == m.fibs[f]
      alt == fib.alternate
      reuse == /\ alt # NULL
               /\ m.fibs[alt].dom # NULL
               /\ m.fibs[alt].type = fib.type
      made == CreateDom(m.doms, fib)
      m1 == IF fib.dom # NULL THEN m
            ELSE IF reuse THEN [m EXCEPT !.fibs[f].dom = m.fibs[alt].dom]
            ELSE [m EXCEPT !.fibs[f].dom = made.id,
                           !.doms = AppendChild(made.doms,
                                                DomParentOf(m.fibs, f), made.id)]
  IN reconcileChildren(m1, f, fib.el.kids)

updateHostComponent(m, f) ==
  LET fib == m.fibs[f]
      alt == fib.alternate
      reuse == /\ alt # NULL
               /\ m.fibs[alt].dom # NULL
               /\ m.fibs[alt].type = fib.type
      made == CreateDom(m.doms, fib)
      m1 == IF fib.dom # NULL THEN m
            ELSE IF reuse THEN [m EXCEPT !.fibs[f].dom = m.fibs[alt].dom]
            ELSE [m EXCEPT !.fibs[f].dom = made.id, !.doms = made.doms]
  IN reconcileChildren(m1, f, fib.el.kids)

\* ------------------------------------------------------------------ hooks
\* A setter action: a plain value, or the application's functional updater
\* prev => (prev + 1) % (MaxCount + 1)
Value(v) == [fn |-> FALSE, v |-> v]
Updater == [fn |-> TRUE, v |-> 0]
Actions == {Value(v) : v \in 0..MaxCount} \cup {Updater}

\* typeof action === 'function' ? action(currentState) : action
Apply(a, s) == IF a.fn THEN (s + 1) % (MaxCount + 1) ELSE a.v

RECURSIVE Drain(_, _)
Drain(actions, s) ==
  IF actions = <<>> THEN s ELSE Drain(Tail(actions), Apply(Head(actions), s))

\* areDependenciesChanged / depsChanged: an absent list on either side, a
\* different length, or some element that is not Object.is-equal
\* a variant that does not compare the lengths
depsChanged_noLength(prevHas, prevDeps, nextHas, nextDeps) ==
  \/ ~prevHas
  \/ ~nextHas
  \/ \E i \in 1..Len(prevDeps) :
       i <= Len(nextDeps) /\ prevDeps[i] # nextDeps[i]

depsChanged(prevHas, prevDeps, nextHas, nextDeps) ==
  \/ ~prevHas
  \/ ~nextHas
  \/ Len(prevDeps) # Len(nextDeps)
  \/ \E i \in 1..Len(prevDeps) : prevDeps[i] # nextDeps[i]

\* getCurrentFiber(): the unit performUnitOfWork set last (window.minireact
\* holds a copy that is set at the same place)
getCurrentFiber(w) == w.wf

\* validateHookCall(hookName) throws: there is no current unit
validateHookCall(w) == getCurrentFiber(w) = NULL

NoHook ==
  [tag |-> "none", state |-> 0, has |-> FALSE, deps |-> <<>>,
   cleanup |-> NULL, bump |-> FALSE, hasChanged |-> FALSE, fail |-> "no",
   id |-> NULL, ref |-> NULL]

\* getPreviousHook(fiber, index): fiber.alternate?.hooks?.[index] || null
getPreviousHook(fibs, f, idx) ==
  LET alt == fibs[f].alternate IN
  IF alt # NULL /\ idx <= Len(fibs[alt].hooks) THEN fibs[alt].hooks[idx]
  ELSE NoHook

\* useState(0) called by the component of fiber f: the hook key is the
\* component's name and the hook index
useState(m, f) ==
  LET key == m.fibs[f].type
      first == m.hs[key] = UNSET
      currentState == Drain(m.qs[key], IF first THEN 0 ELSE m.hs[key])
      hook == [NoHook EXCEPT !.tag = "state", !.state = currentState]
  IN [m EXCEPT !.hs[key] = currentState, !.qs[key] = <<>>,
               !.fibs[f].hooks = Append(@, hook),
               !.seen[key] = [prev |-> IF first THEN 0 ELSE m.hs[key],
                              batch |-> m.passed[key], got |-> currentState,
                              gap |-> m.gap[key] = 2],
               !.passed[key] = <<>>, !.gap[key] = 0]

\* the application's reducer: (state, action) => action === 'inc' ?
\* (state + 1) % 3 : (state * 2) % 3
ReducerActions == {"inc", "double"}

reducer(s, a) ==
  IF a = "inc" THEN (s + 1) % (MaxCount + 1) ELSE (s * 2) % (MaxCount + 1)

\* actions.forEach(action => { currentState = reducer(currentState, action) })
RECURSIVE Fold(_, _)
Fold(actions, s) ==
  IF actions = <<>> THEN s ELSE Fold(Tail(actions), reducer(s, Head(actions)))

\* a variant that applies the queued actions last to first
RECURSIVE Fold_backwards(_, _)
Fold_backwards(actions, s) ==
  IF actions = <<>> THEN s
  ELSE Fold_backwards(SubSeq(actions, 1, Len(actions) - 1),
                      reducer(s, actions[Len(actions)]))

\* useReducer(reducer, 0) called by the component of fiber f: the hook key is
\* the component's name and the hook index; hs and qs stand for reducerStates
\* and actionQueues of useReducer.js under that key
useReducer(m, f) ==
  LET key == m.fibs[f].type
      first == m.hs[key] = UNSET
      currentState == Fold(m.qs[key], IF first THEN 0 ELSE m.hs[key])
      hook == [NoHook EXCEPT !.tag = "reducer", !.state = currentState]
  IN [m EXCEPT !.hs[key] = currentState, !.qs[key] = <<>>,
               !.fibs[f].hooks = Append(@, hook),
               !.seen[key] = [prev |-> IF first THEN 0 ELSE m.hs[key],
                              batch |-> m.passed[key], got |-> currentState,
                              gap |-> m.gap[key] = 2],
               !.passed[key] = <<>>, !.gap[key] = 0]

\* the identity of a value that compute() returns: one no hook holds
MemoIds == 1..MaxMemo

NewMemo(fibs) ==
  CHOOSE v \in MemoIds :
    LET used == UNION {{fibs[g].hooks[i].id : i \in 1..Len(fibs[g].hooks)} :
                         g \in FiberIds}
    IN /\ v \notin used
       /\ \A u \in MemoIds : u < v => u \in used

\* useMemo's comparison of the dependency lists: hasChanged
memoChanged(oldHook, has, deps) ==
  IF oldHook.tag # "none" /\ has
  THEN IF oldHook.has /\ Len(deps) = Len(oldHook.deps)
       THEN \E i \in 1..Len(deps) : deps[i] # oldHook.deps[i]
       ELSE TRUE
  ELSE IF oldHook.tag # "none" /\ ~has /\ ~oldHook.has THEN FALSE
  ELSE TRUE

\* useMemo(compute, deps) called by the component of fiber f; compute()
\* returns a new value with the content v
useMemo(m, f, v, has, deps) ==
  LET idx == Len(m.fibs[f].hooks) + 1
      oldHook == getPreviousHook(m.fibs, f, idx)
      hasChanged == memoChanged(oldHook, has, deps)
      hook == [NoHook EXCEPT !.tag = "memo", !.has = has,
                             !.deps = IF has THEN deps ELSE <<>>,
                             !.hasChanged = hasChanged,
                             !.state = IF hasChanged THEN v ELSE oldHook.state,
                             !.id = IF hasChanged THEN NewMemo(m.fibs)
                                    ELSE oldHook.id]
  IN [m EXCEPT !.fibs[f].hooks = Append(@, hook)]

\* useCallback(callback, deps): useMemo(() => callback, deps)
useCallback(m, f, v, has, deps) == useMemo(m, f, v, has, deps)

\* createContext(0): the default value of every context
DefaultValue == 0

\* the Provider of context ctx called on fiber f with the prop value
Provider(m, f, ctx, value) == [m EXCEPT !.fibs[f].contextProviders[ctx] = value]

\* useContext's walk up the parent chain, from the unit itself
RECURSIVE FindContext(_, _, _)
FindContext(fibs, g, ctx) ==
  IF g = NULL THEN DefaultValue
  ELSE IF fibs[g].contextProviders[ctx] # UNSET
  THEN fibs[g].contextProviders[ctx]
  ELSE FindContext(fibs, fibs[g].parent, ctx)

\* a walk that goes on to the outermost Provider
RECURSIVE FindOutermost(_, _, _, _)
FindOutermost(fibs, g, ctx, found) ==
  IF g = NULL THEN found
  ELSE FindOutermost(fibs, fibs[g].parent, ctx,
                     IF fibs[g].contextProviders[ctx] # UNSET
                     THEN fibs[g].contextProviders[ctx] ELSE found)

\* a variant that returns the value of the outermost Provider
useContext_outermost(m, f, ctx) ==
  [m EXCEPT !.fibs[f].hooks =
     Append(@, [NoHook EXCEPT !.tag = "context",
                              !.state = FindOutermost(m.fibs, f, ctx,
                                                      DefaultValue)])]

\* useContext(context) called by the component of fiber f
useContext(m, f, ctx) ==
  [m EXCEPT !.fibs[f].hooks =
     Append(@, [NoHook EXCEPT !.tag = "context",
                              !.state = FindContext(m.fibs, f, ctx)])]

\* { current: initialValue }: a new ref object
NewRef(refs) ==
  CHOOSE r \in RefIds :
    /\ refs[r] = UNSET
    /\ \A q \in RefIds : q < r => refs[q] # UNSET

\* a variant that makes a new ref object in every generation
useRef_fresh(m, f, initialValue) ==
  LET r == NewRef(m.refs) IN
  [m EXCEPT !.refs[r] = initialValue,
            !.fibs[f].hooks = Append(@, [NoHook EXCEPT !.tag = "ref", !.ref = r])]

\* useRef(initialValue) called by the component of fiber f: the previous
\* generation's hook object is taken over, else a hook with a new ref object
\* is made
useRef(m, f, initialValue) ==
  LET idx == Len(m.fibs[f].hooks) + 1
      previousHook == getPreviousHook(m.fibs, f, idx)
      r == NewRef(m.refs)
  IN IF previousHook.tag # "none"
     THEN [m EXCEPT !.fibs[f].hooks = Append(@, previousHook)]
     ELSE [m EXCEPT !.refs[r] = initialValue,
                    !.fibs[f].hooks =
                      Append(@, [NoHook EXCEPT !.tag = "ref", !.ref = r])]

\* useEffect(effect, deps) called by the component of fiber f, whose body has
\* read `count` from useState
useEffect(m, f, count) ==
  LET el == m.fibs[f].el
      idx == Len(m.fibs[f].hooks) + 1
      oldHook == getPreviousHook(m.fibs, f, idx)
      deps == IF el.onCount THEN Append(el.deps, count) ELSE el.deps
      hasChanged == IF ~el.has THEN TRUE
                    ELSE \/ oldHook.tag = "none"
                         \/ depsChanged(oldHook.has, oldHook.deps, el.has, deps)
      hook == [NoHook EXCEPT !.tag = "effect", !.state = count, !.has = el.has,
                             !.deps = IF el.has THEN deps ELSE <<>>,
                             !.cleanup = oldHook.cleanup,
                             !.bump = el.bump, !.hasChanged = hasChanged,
                             !.fail = el.fail]
  IN [m EXCEPT !.fibs[f].hooks = Append(@, hook)]

\* The application's components: const [count, setCount] = useState(0);
\* useEffect(() => { if (bump && count < BumpLimit) setCount(count + 1);
\* return cleanup }, deps); return createElement('span', null, count).
\* Component B calls useEffect a second time with the same arguments.
\* A body that throws does so on its first line: if (fail) throw new Error().
\* Component R: const [state, dispatch] = useReducer(reducer, 0);
\* const value = useMemo(() => ({state}), deps);
\* const callback = useCallback(() => state, deps);
\* const ref = useRef(0);
\* return createElement('span', null, state).
\* has/deps/onCount of its element give the list deps, as for A.
MemoBody(m, f, state, has, deps) ==
  useRef(useCallback(useMemo(m, f, state, has, deps), f, state, has, deps),
         f, 0)

ReducerBody(m1, f) ==
  LET el == m1.fibs[f].el
      state == m1.hs[m1.fibs[f].type]
      deps == IF el.onCount THEN Append(el.deps, state) ELSE el.deps
  IN [m |-> MemoBody(m1, f, state, el.has, deps),
      children |-> <<Host("span", UNSET, <<Text(state)>>)>>]

\* A Provider stores its value prop on its unit and returns props.children.
ProviderBody(m, f) ==
  [m |-> Provider(m, f, ContextOf(m.fibs[f].type), m.fibs[f].el.val),
   children |-> m.fibs[f].el.kids]

\* Component C: const theme = useContext(Theme);
\* return createElement('span', null, theme).
ConsumerBody(m1, f) ==
  [m |-> m1,
   children |-> <<Host("span", UNSET, <<Text(m1.fibs[f].hooks[1].state)>>)>>]

\* class K extends Component {
\*   constructor(props) { super(props); this.first = props.text; }
\*   render() { return createElement('div', null, this.props.text); } }
\* a variant that constructs an instance in every generation
ClassBody_fresh(m, f) ==
  LET el == m.fibs[f].el
      i == NewInst(m.insts)
      m1 == [m EXCEPT !.insts[i] = [made |-> TRUE, props |-> el.val,
                                    first |-> el.val],
                      !.fibs[f].instance = i]
  IN [m |-> m1,
      children |-> <<Host("div", UNSET, <<Text(m1.insts[i].props)>>)>>]

\* the class branch of updateFunctionComponent: the instance of the
\* alternate is taken over and its props assigned, else one is constructed;
\* then render() is called on it (instance._internalFiber, which nothing
\* reads, is left out)
ClassBody(m, f) ==
  LET el == m.fibs[f].el
      alt == m.fibs[f].alternate
      reuse == alt # NULL /\ m.fibs[alt].instance # NULL
      i == IF reuse THEN m.fibs[alt].instance ELSE NewInst(m.insts)
      m1 == IF reuse
            THEN [m EXCEPT !.insts[i].props = el.val, !.fibs[f].instance = i]
            ELSE [m EXCEPT !.insts[i] = [made |-> TRUE, props |-> el.val,
                                         first |-> el.val],
                           !.fibs[f].instance = i]
  IN [m |-> m1,
      children |-> <<Host("div", UNSET, <<Text(m1.insts[i].props)>>)>>]

\* --------------------------------------------------------------- scheduler
\* w is the whole program memory: the fields of m and c above and
\*   next nextUnitOfWork   cur currentRoot   wip wipRoot   wf wipFiber
\*   rc rootContainer      running isWorkLoopRunning
\*   cbs the idle callbacks requested and not yet delivered
\*   warned the last application call ended in scheduleRerender's console.warn
RootFiber(container, el, alternate) ==
  [FreeFiber EXCEPT !.type = "ROOT", !.el = el, !.dom = container,
                    !.alternate = alternate]

startWorkLoop(w) ==
  IF ~w.running THEN [w EXCEPT !.running = TRUE, !.cbs = @ + 1] ELSE w

\* a variant that warns and asks for an idle callback all the same
scheduleRerender_requesting(w) ==
  IF w.cur = NULL THEN [w EXCEPT !.warned = TRUE, !.cbs = @ + 1]
  ELSE LET r == NewFiber(w.fibs)
           root == RootFiber(w.fibs[w.cur].dom, w.fibs[w.cur].el, w.cur)
       IN startWorkLoop([w EXCEPT !.fibs[r] = root, !.wip = r, !.next = r,
                                  !.dels = <<>>])

\* a variant that renders again into the committed root itself
scheduleRerender_inPlace(w) ==
  IF w.cur = NULL THEN [w EXCEPT !.warned = TRUE]
  ELSE startWorkLoop([w EXCEPT !.wip = w.cur, !.next = w.cur, !.dels = <<>>])

scheduleRerender(w) ==
  IF w.cur = NULL THEN [w EXCEPT !.warned = TRUE]
  ELSE LET r == NewFiber(w.fibs)
           root == RootFiber(w.fibs[w.cur].dom, w.fibs[w.cur].el, w.cur)
       IN startWorkLoop([w EXCEPT !.fibs[r] = root, !.wip = r, !.next = r,
                                  !.dels = <<>>])

\* the setter returned by useState for hook key `key`
\* a variant without the identity check
setState_noCheck(w, key, action) ==
  scheduleRerender([w EXCEPT !.passed[key] = Append(@, action),
                             !.gap[key] = IF @ = 0 THEN 0 ELSE 2,
                             !.qs[key] = Append(@, action)])

setState(w, key, action) ==
  LET currentState == w.hs[key]
      nextValue == Apply(action, currentState)
      w1 == [w EXCEPT !.passed[key] = Append(@, action),
                      !.gap[key] = IF @ = 0 THEN 0 ELSE 2]
  IN IF nextValue = currentState THEN w1
     ELSE scheduleRerender([w1 EXCEPT !.qs[key] = Append(@, action)])

\* the dispatch function returned by useReducer for hook key `key`
\* a variant that drops an action that leaves the stored state as it is
dispatch_skipping(w, key, action) ==
  IF reducer(w.hs[key], action) = w.hs[key]
  THEN [w EXCEPT !.passed[key] = Append(@, action),
                 !.gap[key] = IF @ = 0 THEN 0 ELSE 2]
  ELSE scheduleRerender([w EXCEPT !.passed[key] = Append(@, action),
                                  !.gap[key] = IF @ = 0 THEN 0 ELSE 2,
                                  !.qs[key] = Append(@, action)])

dispatch(w, key, action) ==
  scheduleRerender([w EXCEPT !.passed[key] = Append(@, action),
                             !.gap[key] = IF @ = 0 THEN 0 ELSE 2,
                             !.qs[key] = Append(@, action)])

render(w, element, container) ==
  LET w1 == IF w.rc # container
            THEN [w EXCEPT !.cur = NULL, !.wip = NULL, !.next = NULL,
                           !.wf = NULL, !.running = FALSE,
                           !.doms[container].kids = <<>>, !.rc = container]
            ELSE w
      r == NewFiber(w1.fibs)
      root == RootFiber(container, [NullEl EXCEPT !.kids = <<element>>], w1.cur)
  IN startWorkLoop([w1 EXCEPT !.fibs[r] = root, !.wip = r, !.next = r,
                              !.dels = <<>>])

\* the tail of workLoop: requestIdleCallback(workLoop) while work remains,
\* else isWorkLoopRunning = false
\* a variant that never asks for another idle callback
workLoopTail_stop(w) == [w EXCEPT !.running = FALSE]

\* a variant that forgets the deletion list when it yields
workLoopTail_clearing(w) ==
  IF w.next # NULL \/ w.wip # NULL
  THEN [w EXCEPT !.cbs = @ + 1, !.dels = <<>>]
  ELSE [w EXCEPT !.running = FALSE]

workLoopTail(w) ==
  IF w.next # NULL \/ w.wip # NULL THEN [w EXCEPT !.cbs = @ + 1]
  ELSE [w EXCEPT !.running = FALSE]

\* ------------------------------------------------------- component bodies
\* Array.isArray(result) ? result : [result]
ArrayOf(result, isArray) == IF isArray THEN result ELSE <<result>>

\* const L = ({ items }) => items;  const W = ({ item }) => item;
ListBody(m, f) ==
  LET el == m.fibs[f].el IN
  [m |-> m,
   children |-> IF el.type = "L" THEN ArrayOf(el.kids, TRUE)
                ELSE ArrayOf(el.kids[1], FALSE)]

\* if (count < 1) setCount(c => c + 1), in the body of a component
Derive(m, key, count, on) ==
  IF on /\ count < BumpLimit THEN setState(m, key, Updater) ELSE m

\* children is the component's result, made an array if it is not one
ComponentBody(m, f) ==
  LET m1 == useState(m, f)
      count == m1.hs[m1.fibs[f].type]
      m2 == useEffect(m1, f, count)
      m3 == IF m.fibs[f].type = "B" THEN useEffect(m2, f, count) ELSE m2
  IN IF m.fibs[f].el.fail = "render"
     THEN [m |-> [m EXCEPT !.err = TRUE], children |-> <<>>]
     ELSE IF m.fibs[f].type \in ClassTypes THEN ClassBody(m, f)
     ELSE IF m.fibs[f].type \in ListTypes THEN ListBody(m, f)
     ELSE IF m.fibs[f].type = "R" THEN ReducerBody(useReducer(m, f), f)
     ELSE IF m.fibs[f].type \in Providers THEN ProviderBody(m, f)
     ELSE IF m.fibs[f].type \in Consumers
     THEN ConsumerBody(useContext(m, f, "Theme"), f)
     ELSE [m |-> Derive(m3, m.fibs[f].type, count, m.fibs[f].el.derive),
           children |-> <<Host("span", UNSET, <<Text(count)>>)>>]

\* what follows the call of the component (r is what it did and returned):
\* nothing if it threw, else its children are reconciled
Rendered(r, f) ==
  IF r.m.err THEN r.m ELSE reconcileChildren(r.m, f, r.children)

updateFunctionComponent(m, f) ==
  Rendered(ComponentBody([m EXCEPT !.fibs[f].hooks = <<>>], f), f)

\* ---------------------------------------------------------- unit of work
RECURSIVE NextUp(_, _)
NextUp(fibs, f) ==
  IF f = NULL THEN NULL
  ELSE IF fibs[f].sibling # NULL THEN fibs[f].sibling
  ELSE NextUp(fibs, fibs[f].parent)

\* a variant that goes to the sibling before the child
performUnitOfWork_siblingFirst(m, f) ==
  LET m1 == IF IsFunction(m.fibs[f].type) THEN updateFunctionComponent(m, f)
            ELSE updateHostComponent(m, f)
  IN [m |-> m1,
      next |-> IF m1.err THEN NULL
               ELSE IF m1.fibs[f].sibling # NULL THEN m1.fibs[f].sibling
               ELSE IF m1.fibs[f].child # NULL THEN m1.fibs[f].child
               ELSE NextUp(m1.fibs, m1.fibs[f].parent)]

\* a variant that catches what the component throws and goes on
performUnitOfWork_swallow(m, f) ==
  LET m0 == IF IsFunction(m.fibs[f].type) THEN updateFunctionComponent(m, f)
            ELSE updateHostComponent(m, f)
      m1 == [m0 EXCEPT !.err = FALSE]
  IN [m |-> m1,
      next |-> IF m1.fibs[f].child # NULL THEN m1.fibs[f].child
               ELSE NextUp(m1.fibs, f)]

performUnitOfWork(m, f) ==
  LET m1 == IF IsFunction(m.fibs[f].type) THEN updateFunctionComponent(m, f)
            ELSE updateHostComponent(m, f)
  IN [m |-> m1,
      next |-> IF m1.err THEN NULL
               ELSE IF m1.fibs[f].child # NULL THEN m1.fibs[f].child
               ELSE NextUp(m1.fibs, f)]

\* ------------------------------------------------------------------ commit
\* c is the memory the commit step reads and writes: the two heaps, the log
\* of callbacks invoked (log), the number of times each cleanup closure has
\* been invoked (runs, capped at 2) and err.  ctx holds what a callback
\* invoked at this point would observe: the committed-root pointer (cur), the
\* work-in-progress root pointer (wip) and the root being committed (root).
\* muts lists the calls made on the output tree for a unit: removeChild
\* ("remove"), appendChild ("append") and updateDom ("update").
Mutated(c, op, f) == [c EXCEPT !.muts = Append(@, [op |-> op, unit |-> f])]

Invoke(c, kind, f, i, tok, ctx) ==
  [c EXCEPT !.log = Append(@, [kind |-> kind, fiber |-> f, idx |-> i,
                               token |-> tok, prev |-> NULL,
                               cur |-> ctx.cur,
                               wip |-> ctx.wip, root |-> ctx.root,
                               phase |-> ctx.phase, threw |-> FALSE]),
            !.runs = IF kind # "cleanup" THEN @
                     ELSE [@ EXCEPT ![tok] = IF @ < 2 THEN @ + 1 ELSE 2]]

RECURSIVE CleanupHooks(_, _, _, _)
CleanupHooks(c, f, i, ctx) ==
  IF i > Len(c.fibs[f].hooks) THEN c
  ELSE LET hook == c.fibs[f].hooks[i] IN
       IF hook.tag = "effect" /\ hook.cleanup # NULL
       THEN CleanupHooks(
              [Invoke(c, "cleanup", f, i, hook.cleanup, ctx)
                 EXCEPT !.fibs[f].hooks[i].cleanup = NULL,
                        !.log[Len(c.log) + 1].threw = (hook.fail = "cleanup")],
              f, i + 1, ctx)
       ELSE CleanupHooks(c, f, i + 1, ctx)

RECURSIVE cleanupEffects(_, _, _)
cleanupEffects(c, f, ctx) ==
  IF f = NULL THEN c
  ELSE LET c1 == CleanupHooks(c, f, 1, ctx)
           c2 == cleanupEffects(c1, c1.fibs[f].child, ctx)
       IN cleanupEffects(c2, c2.fibs[f].sibling, ctx)

\* domParent.removeChild(child): NotFoundError unless a direct child
RemoveChild(c, p, d) ==
  IF InSeq(c.doms[p].kids, d) THEN [c EXCEPT !.doms[p].kids = Without(@, d)]
  ELSE [c EXCEPT !.err = TRUE]

RECURSIVE commitDeletion(_, _, _, _)
commitDeletion(c, f, domParent, ctx) ==
  IF f = NULL \/ c.err THEN c
  ELSE IF c.fibs[f].dom # NULL
  THEN LET d == c.fibs[f].dom
           c1 == IF domParent # NULL /\ Contains(c.doms, domParent, d)
                 THEN Mutated(RemoveChild(cleanupEffects(c, f, ctx),
                                          domParent, d), "remove", f)
                 ELSE c
       IN commitDeletion(c1, c1.fibs[f].sibling, domParent, ctx)
  ELSE LET c1 == cleanupEffects(c, f, ctx)
           c2 == commitDeletion(c1, c1.fibs[f].child, domParent, ctx)
       IN commitDeletion(c2, c2.fibs[f].sibling, domParent, ctx)

RECURSIVE commitWork(_, _, _)
commitWork(c, f, ctx) ==
  IF f = NULL \/ c.err THEN c
  ELSE
    LET fib == c.fibs[f]
        domParent == DomParentOf(c.fibs, f)
    IN IF fib.effectTag = "DELETION"
       THEN commitDeletion(c, f, domParent, ctx)
       ELSE
         LET c1 == IF fib.effectTag = "PLACEMENT" /\ fib.dom # NULL
                   THEN IF domParent = NULL THEN [c EXCEPT !.err = TRUE]
                        ELSE Mutated([c EXCEPT !.doms =
                                        AppendChild(@, domParent, fib.dom)],
                                     "append", f)
                   ELSE IF fib.effectTag = "UPDATE" /\ fib.dom # NULL
                   THEN Mutated([c EXCEPT !.doms =
                                   UpdateDom(@, fib.dom,
                                             c.fibs[fib.alternate].el.val,
                                             fib.el.val)],
                                "update", f)
                   ELSE c
             c2 == commitWork(c1, c1.fibs[f].child, ctx)
         IN commitWork(c2, c2.fibs[f].sibling, ctx)

RECURSIVE CommitDeletions(_, _, _, _)
CommitDeletions(c, dels, i, ctx) ==
  IF i > Len(dels) THEN c
  ELSE CommitDeletions(
         commitDeletion(c, dels[i], DomParentOf(c.fibs, dels[i]), ctx),
         dels, i + 1, ctx)

\* a variant that walks the new tree before the deletion list
commitRoot_workFirst(c, root, dels, ctx) ==
  CommitDeletions(commitWork(c, c.fibs[root].child, ctx), dels, 1, ctx)

commitRoot(c, root, dels, ctx) ==
  commitWork(CommitDeletions(c, dels, 1, ctx), c.fibs[root].child, ctx)

\* ------------------------------------------------------ garbage collection
\* Units and output nodes that no pointer of the program reaches any more are
\* returned to the heaps.  The program never reads the alternate of a unit of
\* the committed tree after the effect pass, so such a pointer to a collected
\* unit is cleared; wipFiber, which the program only tests for null once the
\* pass is over, becomes STALE when its unit is collected.
RECURSIVE ReachFibers(_, _)
ReachFibers(fibs, set) ==
  LET more == set \cup
               (({fibs[f].child : f \in set} \cup {fibs[f].sibling : f \in set}
                 \cup {fibs[f].parent : f \in set}) \ {NULL})
  IN IF more = set THEN set ELSE ReachFibers(fibs, more)

RECURSIVE ReachDom(_, _)
ReachDom(doms, set) ==
  LET more == set \cup
               UNION {{doms[d].kids[i] : i \in 1..Len(doms[d].kids)} : d \in set}
  IN IF more = set THEN set ELSE ReachDom(doms, more)

Gc(w) ==
  LET live == ReachFibers(w.fibs, {w.cur, w.wip, w.next} \ {NULL})
      fibs1 == [f \in FiberIds |->
                  IF f \in live
                  THEN [w.fibs[f] EXCEPT
                          !.alternate = IF @ \in live THEN @ ELSE NULL]
                  ELSE FreeFiber]
      liveDom == ReachDom(w.doms,
                          Containers \cup ({fibs1[f].dom : f \in live} \ {NULL}))
      doms1 == [d \in DomIds |-> IF d \in liveDom THEN w.doms[d] ELSE FreeDom]
      liveRefs == UNION {{fibs1[f].hooks[i].ref : i \in 1..Len(fibs1[f].hooks)} :
                           f \in live}
      refs1 == [r \in RefIds |-> IF r \in liveRefs THEN w.refs[r] ELSE UNSET]
      liveInsts == {fibs1[f].instance : f \in live}
      insts1 == [i \in InstIds |->
                   IF i \in liveInsts THEN w.insts[i] ELSE FreeInst]
  IN [w EXCEPT !.fibs = fibs1, !.doms = doms1, !.refs = refs1,
               !.insts = insts1,
               !.wf = IF @ = NULL \/ @ \in live THEN @ ELSE STALE]

\* ------------------------------------------------------------- effect pass
\* runEffects(fiber) visits the committed tree depth first; at each unit it
\* runs the stale cleanups of all its effect hooks, then the due effects of
\* all its effect hooks, then goes to the child and to the sibling.  The
\* visits it will make are listed up front (tasks); whether a cleanup or an
\* effect is due is decided when its turn comes.
HookTasks(fibs, f, kind) ==
  LET n == Len(fibs[f].hooks)
      all == [i \in 1..n |-> [fiber |-> f, idx |-> i, kind |-> kind]]
  IN SelectSeq(all, LAMBDA t : fibs[f].hooks[t.idx].tag = "effect")

\* a variant that visits hook by hook: a hook's cleanup, then its effect
RECURSIVE EffectTasks_perHook(_, _)
EffectTasks_perHook(fibs, f) ==
  IF f = NULL THEN <<>>
  ELSE LET cs == HookTasks(fibs, f, "cleanup")
           es == HookTasks(fibs, f, "effect")
           both == [i \in 1..(2 * Len(cs)) |->
                      IF i % 2 = 1 THEN cs[(i + 1) \div 2] ELSE es[i \div 2]]
       IN both \o EffectTasks_perHook(fibs, fibs[f].child)
               \o EffectTasks_perHook(fibs, fibs[f].sibling)

RECURSIVE EffectTasks(_, _)
EffectTasks(fibs, f) ==
  IF f = NULL THEN <<>>
  ELSE HookTasks(fibs, f, "cleanup") \o HookTasks(fibs, f, "effect")
       \o EffectTasks(fibs, fibs[f].child) \o EffectTasks(fibs, fibs[f].sibling)

\* fiber.alternate && fiber.alternate.hooks && fiber.alternate.hooks[index]
OldHookOf(fibs, t) == getPreviousHook(fibs, t.fiber, t.idx)

\* a variant that runs the stale cleanup only when a list is absent
shouldRunCleanup_absentOnly(fibs, t) ==
  LET hook == fibs[t.fiber].hooks[t.idx]
      oldHook == OldHookOf(fibs, t)
  IN /\ oldHook.tag # "none"
     /\ oldHook.cleanup # NULL
     /\ (~hook.has \/ ~oldHook.has)

shouldRunCleanup(fibs, t) ==
  LET hook == fibs[t.fiber].hooks[t.idx]
      oldHook == OldHookOf(fibs, t)
  IN /\ oldHook.tag # "none"
     /\ oldHook.cleanup # NULL
     /\ \/ ~hook.has
        \/ ~oldHook.has
        \/ depsChanged(oldHook.has, oldHook.deps, hook.has, hook.deps)

shouldRunEffect(fibs, t) ==
  LET hook == fibs[t.fiber].hooks[t.idx]
      oldHook == OldHookOf(fibs, t)
  IN \/ ~hook.has
     \/ oldHook.tag = "none"
     \/ depsChanged(oldHook.has, oldHook.deps, hook.has, hook.deps)

Due(fibs, t) ==
  IF t.kind = "cleanup" THEN shouldRunCleanup(fibs, t)
  ELSE shouldRunEffect(fibs, t)

RECURSIVE SkipNotDue(_, _)
SkipNotDue(fibs, ts) ==
  IF ts = <<>> \/ Due(fibs, Head(ts)) THEN ts ELSE SkipNotDue(fibs, Tail(ts))

\* a cleanup closure no hook holds and the log of this cycle does not name
UsedTokens(w) ==
  UNION {{w.fibs[f].hooks[i].cleanup : i \in 1..Len(w.fibs[f].hooks)} :
           f \in FiberIds}
  \cup {w.log[i].token : i \in 1..Len(w.log)}

NewToken(w) ==
  CHOOSE t \in Tokens :
    /\ t \notin UsedTokens(w)
    /\ \A u \in Tokens : u < t => u \in UsedTokens(w)

\* one visit of runEffects: the stale cleanup, or the effect body of the
\* application (which may call the setter) whose returned cleanup is stored.
\* Each call is made inside try/catch: an exception is logged and the visit
\* ends; an effect body that throws does so on its first line and leaves the
\* hook's cleanup field as useEffect filled it.
RunTask(w, t, committedRoot) ==
  LET f == t.fiber
      hook == w.fibs[f].hooks[t.idx]
      oldHook == OldHookOf(w.fibs, t)
      ctx == [cur |-> w.cur, wip |-> w.wip, root |-> committedRoot,
              phase |-> "effects"]
      tok == NewToken(w)
      w1 == [Invoke(w, "effect", f, t.idx, tok, ctx)
               EXCEPT !.log[Len(w.log) + 1].prev = hook.cleanup]
      w2 == IF hook.bump /\ hook.state < BumpLimit
            THEN setState(w1, w.fibs[f].type, Value(hook.state + 1))
            ELSE w1
  IN IF t.kind = "cleanup"
     THEN [Invoke(w, "cleanup", f, t.idx, oldHook.cleanup, ctx)
             EXCEPT !.log[Len(w.log) + 1].threw = (oldHook.fail = "cleanup")]
     ELSE IF hook.fail = "effect"
     THEN [w1 EXCEPT !.log[Len(w.log) + 1].token = NULL,
                     !.log[Len(w.log) + 1].threw = TRUE]
     ELSE [w2 EXCEPT !.fibs[f].hooks[t.idx].cleanup = tok, !.runs[tok] = 0]

\* ------------------------------------------------------------------- state
VARIABLES
  fibers,            \* the fiber heap
  dom,               \* the output-node heap; the containers are nodes 1..NumContainers
  hookStates,        \* useState.js hookStates, by hook key
  updateQueues,      \* useState.js updateQueues, by hook key
  deletions,         \* window.minireact.deletions
  nextUnitOfWork, currentRoot, wipRoot, wipFiber, rootContainer,
  isWorkLoopRunning,
  idleCallbacks,     \* requestIdleCallback(workLoop) calls not yet delivered
  pc,                \* "idle", "loop" or "effects"
  shouldYield,       \* workLoop's local
  tasks,             \* the visits runEffects still has to make
  elog,              \* callbacks invoked since the last commit began
  cleanupRuns,       \* times each cleanup closure has been invoked
  warned,            \* the last application call logged scheduleRerender's warning
  visited,           \* units processed since the pass began
  committed,         \* the root handed to the last commitRoot call
  calls,             \* calls the application has made from outside the library
  tick,              \* flips at every step of a handler the host runs
  passed,            \* per hook key: actions handed to the setter since the last read
  gap,               \* per hook key: a slice has begun since the last of them
  seen,              \* per hook key: what the last read of the cell found
  refs,              \* the current field of the ref objects useRef has made
  insts,             \* the instances of the class components
  mutations,         \* calls made on the output tree since the last commit began
  lastElement,       \* the element handed to the last render() call
  aborted            \* an exception of a component has left workLoop

vars ==
  <<fibers, dom, hookStates, updateQueues, deletions, nextUnitOfWork,
    currentRoot, wipRoot, wipFiber, rootContainer, isWorkLoopRunning,
    idleCallbacks, pc, shouldYield, tasks, elog, cleanupRuns, warned,
    visited, committed, calls, tick, passed, gap, seen, refs, insts,
    mutations, lastElement, aborted>>

World ==
  [fibs |-> fibers, doms |-> dom, hs |-> hookStates, qs |-> updateQueues,
   dels |-> deletions, err |-> FALSE, log |-> elog, runs |-> cleanupRuns,
   next |-> nextUnitOfWork, cur |-> currentRoot, wip |-> wipRoot,
   wf |-> wipFiber, rc |-> rootContainer, running |-> isWorkLoopRunning,
   cbs |-> idleCallbacks, warned |-> warned, passed |-> passed,
   gap |-> gap, seen |-> seen, refs |-> refs, insts |-> insts,
   muts |-> mutations, last |-> lastElement, aborted |-> aborted]

Install(w) ==
  /\ fibers' = w.fibs
  /\ dom' = w.doms
  /\ hookStates' = w.hs
  /\ updateQueues' = w.qs
  /\ deletions' = w.dels
  /\ elog' = w.log
  /\ cleanupRuns' = w.runs
  /\ nextUnitOfWork' = w.next
  /\ currentRoot' = w.cur
  /\ wipRoot' = w.wip
  /\ wipFiber' = w.wf
  /\ rootContainer' = w.rc
  /\ isWorkLoopRunning' = w.running
  /\ idleCallbacks' = w.cbs
  /\ warned' = w.warned
  /\ passed' = w.passed
  /\ gap' = w.gap
  /\ seen' = w.seen
  /\ refs' = w.refs
  /\ insts' = w.insts
  /\ mutations' = w.muts
  /\ lastElement' = w.last
  /\ aborted' = w.aborted

Init ==
  /\ fibers = [f \in FiberIds |-> FreeFiber]
  /\ dom = [d \in DomIds |->
              IF d \in Containers
              THEN [tag |-> "container", val |-> UNSET, kids |-> <<>>]
              ELSE FreeDom]
  /\ hookStates = [k \in CompTypes |-> UNSET]
  /\ updateQueues = [k \in CompTypes |-> <<>>]
  /\ deletions = <<>>
  /\ nextUnitOfWork = NULL
  /\ currentRoot = NULL
  /\ wipRoot = NULL
  /\ wipFiber = NULL
  /\ rootContainer = NULL
  /\ isWorkLoopRunning = FALSE
  /\ idleCallbacks = 0
  /\ pc = "idle"
  /\ shouldYield = FALSE
  /\ tasks = <<>>
  /\ elog = <<>>
  /\ cleanupRuns = [t \in Tokens |-> 0]
  /\ warned = FALSE
  /\ visited = <<>>
  /\ committed = NULL
  /\ calls = 0
  /\ tick = 0
  /\ passed = [k \in CompTypes |-> <<>>]
  /\ gap = [k \in CompTypes |-> 0]
  /\ seen = [k \in CompTypes |->
               [prev |-> 0, batch |-> <<>>, got |-> 0, gap |-> FALSE]]
  /\ refs = [r \in RefIds |-> UNSET]
  /\ insts = [i \in InstIds |-> FreeInst]
  /\ mutations = <<>>
  /\ lastElement = NullEl
  /\ aborted = FALSE

\* ----------------------------------------------------------------- actions
\* The application calls render(element, container).
Render(element, container) ==
  /\ pc = "idle"
  /\ calls < MaxCalls
  /\ calls' = calls + 1
  /\ Install(Gc(render([World EXCEPT !.warned = FALSE, !.last = element],
                       element, container)))
  /\ visited' = <<>>
  /\ UNCHANGED <<pc, shouldYield, tasks, committed, tick>>

\* The application calls the setter of the state hook of component `key`
\* (from an event handler or a timer).
SetState(key, action) ==
  /\ pc = "idle"
  /\ calls < MaxCalls
  /\ calls' = calls + 1
  /\ hookStates[key] # UNSET
  /\ Len(updateQueues[key]) < MaxQueue
  /\ LET w == Gc(setState([World EXCEPT !.warned = FALSE], key, action)) IN
       /\ Install(w)
       /\ visited' = IF w.next # nextUnitOfWork THEN <<>> ELSE visited
  /\ UNCHANGED <<pc, shouldYield, tasks, committed, tick>>

\* The application calls the dispatch function of the reducer hook of
\* component `key`.
Dispatch(key, action) ==
  /\ pc = "idle"
  /\ calls < MaxCalls
  /\ calls' = calls + 1
  /\ hookStates[key] # UNSET
  /\ Len(updateQueues[key]) < MaxQueue
  /\ LET w == Gc(dispatch([World EXCEPT !.warned = FALSE], key, action)) IN
       /\ Install(w)
       /\ visited' = IF w.next # nextUnitOfWork THEN <<>> ELSE visited
  /\ UNCHANGED <<pc, shouldYield, tasks, committed, tick>>

\* The application writes v to the current field of a ref object that a
\* render has handed to it.
WriteRef(r, v) ==
  /\ pc = "idle"
  /\ refs[r] # UNSET
  /\ refs[r] # v
  /\ refs' = [refs EXCEPT ![r] = v]
  /\ UNCHANGED <<fibers, dom, hookStates, updateQueues, deletions,
                 nextUnitOfWork, currentRoot, wipRoot, wipFiber,
                 rootContainer, isWorkLoopRunning, idleCallbacks, pc,
                 shouldYield, tasks, elog, cleanupRuns, warned, visited,
                 committed, calls, tick, passed, gap, seen, insts,
                 mutations, lastElement, aborted>>

\* The host delivers an idle callback: workLoop(deadline) begins.
IdleCallback ==
  /\ pc = "idle"
  /\ idleCallbacks > 0
  /\ idleCallbacks' = idleCallbacks - 1
  /\ pc' = "loop"
  /\ shouldYield' = FALSE
  /\ tick' = 1 - tick
  /\ gap' = [k \in CompTypes |->
               IF passed[k] # <<>> /\ gap[k] = 0 THEN 1 ELSE gap[k]]
  /\ UNCHANGED <<fibers, dom, hookStates, updateQueues, deletions,
                 nextUnitOfWork, currentRoot, wipRoot, wipFiber,
                 rootContainer, isWorkLoopRunning, tasks, elog, cleanupRuns,
                 warned, visited, committed, calls, passed, seen, refs,
                 insts, mutations, lastElement, aborted>>

\* a variant that reads the deadline before the unit and stops on it
PerformUnit_deadlineFirst ==
  /\ pc = "loop"
  /\ nextUnitOfWork # NULL
  /\ ~shouldYield
  /\ shouldYield' = TRUE
  /\ tick' = 1 - tick
  /\ UNCHANGED <<fibers, dom, hookStates, updateQueues, deletions,
                 nextUnitOfWork, currentRoot, wipRoot, wipFiber,
                 rootContainer, isWorkLoopRunning, idleCallbacks, pc, tasks,
                 elog, cleanupRuns, warned, visited, committed, calls,
                 passed, gap, seen, refs, insts, mutations,
                 lastElement, aborted>>

\* One turn of workLoop's while loop: a unit of work, then the deadline is
\* read.  An exception leaves workLoop (and the callback) at once.
PerformUnit ==
  /\ pc = "loop"
  /\ nextUnitOfWork # NULL
  /\ ~shouldYield
  /\ LET r == performUnitOfWork([World EXCEPT !.wf = nextUnitOfWork],
                                nextUnitOfWork)
     IN IF r.m.err
        THEN /\ Install([r.m EXCEPT !.err = FALSE, !.aborted = TRUE])
             /\ pc' = "idle"
             /\ shouldYield' = FALSE
        ELSE /\ Install([r.m EXCEPT !.next = r.next])
             /\ pc' = "loop"
             /\ \E y \in BOOLEAN :
                  /\ y => r.next # NULL
                  /\ shouldYield' = y
  /\ visited' = Append(visited, nextUnitOfWork)
  /\ tick' = 1 - tick
  /\ UNCHANGED <<tasks, committed, calls>>

\* The render pass is complete: commitRoot, then the committed-root pointer
\* is swapped and the render state cleared, and runEffects is entered.
Commit ==
  /\ pc = "loop"
  /\ nextUnitOfWork = NULL
  /\ wipRoot # NULL
  /\ LET ctx == [cur |-> currentRoot, wip |-> wipRoot, root |-> wipRoot,
                 phase |-> "commit"]
         c == commitRoot([World EXCEPT !.log = <<>>, !.muts = <<>>],
                         wipRoot, deletions, ctx)
     IN IF c.err
        THEN /\ Install([c EXCEPT !.err = FALSE])
             /\ pc' = "idle"
             /\ tasks' = <<>>
        ELSE /\ Install([c EXCEPT !.cur = wipRoot, !.wip = NULL, !.dels = <<>>])
             /\ pc' = "effects"
             /\ tasks' = EffectTasks(c.fibs, wipRoot)
  /\ committed' = wipRoot
  /\ tick' = 1 - tick
  /\ UNCHANGED <<shouldYield, visited, calls>>

\* a variant in which an exception of the callback leaves runEffects
RunEffect_abort ==
  /\ pc = "effects"
  /\ SkipNotDue(fibers, tasks) # <<>>
  /\ LET ts == SkipNotDue(fibers, tasks)
         w == RunTask(World, Head(ts), committed)
         threw == w.log[Len(w.log)].threw
     IN /\ Install(w)
        /\ tasks' = IF threw THEN <<>> ELSE Tail(ts)
        /\ pc' = IF threw THEN "idle" ELSE pc
        /\ visited' = IF w.next # nextUnitOfWork THEN <<>> ELSE visited
  /\ tick' = 1 - tick
  /\ UNCHANGED <<shouldYield, committed, calls>>

\* runEffects makes its next due visit.
RunEffect ==
  /\ pc = "effects"
  /\ SkipNotDue(fibers, tasks) # <<>>
  /\ LET ts == SkipNotDue(fibers, tasks)
         w == RunTask(World, Head(ts), committed)
     IN /\ Install(w)
        /\ tasks' = Tail(ts)
        /\ visited' = IF w.next # nextUnitOfWork THEN <<>> ELSE visited
  /\ tick' = 1 - tick
  /\ UNCHANGED <<pc, shouldYield, committed, calls>>

\* The tail of workLoop: another idle callback is requested if work remains,
\* else the loop is marked stopped; the callback returns.
WorkLoopEnd ==
  /\ \/ pc = "effects" /\ SkipNotDue(fibers, tasks) = <<>>
     \/ pc = "loop" /\ nextUnitOfWork # NULL /\ shouldYield
     \/ pc = "loop" /\ nextUnitOfWork = NULL /\ wipRoot = NULL
  /\ Install(Gc(workLoopTail(World)))
  /\ pc' = "idle"
  /\ shouldYield' = FALSE
  /\ tasks' = <<>>
  /\ tick' = 1 - tick
  /\ UNCHANGED <<visited, committed, calls>>

\* ------------------------------------------------------ the applications
\* What the application hands to render: nothing; component A with an effect
\* without a dependency list, with the list [], with the list [count] and a
\* body that calls the setter; a div holding A and B whose effects depend on
\* a prop (and, for A, on count).
CompA(has, deps, onCount, bump) == Comp("A", has, deps, onCount, bump)

CompB(has, deps, onCount, bump) == Comp("B", has, deps, onCount, bump)

Elements ==
  { NullEl,
    CompA(FALSE, <<>>, FALSE, FALSE),
    CompA(TRUE, <<>>, FALSE, FALSE),
    CompA(TRUE, <<>>, TRUE, TRUE),
    Host("div", UNSET, <<CompA(TRUE, <<1>>, TRUE, TRUE),
                         CompB(TRUE, <<1>>, FALSE, FALSE)>>),
    Host("div", UNSET, <<CompA(TRUE, <<2>>, TRUE, TRUE),
                         CompB(TRUE, <<2>>, FALSE, FALSE)>>) }

\* what the application renders into the containers other than the first
Portable == {CompA(TRUE, <<>>, FALSE, FALSE)}

Renderable(c) == IF c = 1 THEN Elements ELSE Portable

Next ==
  \/ \E c \in Containers : \E e \in Renderable(c) : Render(e, c)
  \/ \E a \in Actions : SetState("A", a)
  \/ IdleCallback
  \/ PerformUnit
  \/ Commit
  \/ RunEffect
  \/ WorkLoopEnd

Spec == Init /\ [][Next]_vars

\* A handler that has started runs to its end (JavaScript runs it without
\* interruption), and the host delivers every idle callback it was asked for.
\* These are the steps that flip tick; one of them is possible exactly when a
\* handler is running or an idle callback is outstanding.
CanStep == pc # "idle" \/ idleCallbacks > 0

HandlerStep == CanStep /\ tick' = 1 - tick

\* The application of the liveness runs: it renders nothing or component A,
\* whose effect calls the setter, into the first container.
LiveElements == {NullEl, CompA(TRUE, <<>>, TRUE, TRUE)}

LiveNext ==
  \/ \E e \in LiveElements : Render(e, 1)
  \/ \E a \in Actions : SetState("A", a)
  \/ IdleCallback
  \/ PerformUnit
  \/ Commit
  \/ RunEffect
  \/ WorkLoopEnd

LiveSpec == Init /\ [][LiveNext]_vars /\ WF_tick(HandlerStep)

\* The application of the list runs renders, into the first container,
\* nothing; a div holding A and B; the same div with a p in the place of A;
\* a ul of three keyed li, in the order 1,2,3 and in the order 3,1,2.
Item(k) == Keyed(Host("li", k, <<>>), k)

TreeElements ==
  { NullEl,
    Host("div", UNSET, <<CompA(TRUE, <<>>, FALSE, FALSE),
                         CompB(TRUE, <<>>, FALSE, FALSE)>>),
    Host("div", UNSET, <<Host("p", UNSET, <<>>),
                         CompB(TRUE, <<>>, FALSE, FALSE)>>),
    Host("ul", UNSET, <<Item(1), Item(2), Item(3)>>),
    Host("ul", UNSET, <<Item(3), Item(1), Item(2)>>) }

TreeNext ==
  \/ \E e \in TreeElements : Render(e, 1)
  \/ \E a \in Actions : SetState("A", a)
  \/ IdleCallback
  \/ PerformUnit
  \/ Commit
  \/ RunEffect
  \/ WorkLoopEnd

TreeSpec == Init /\ [][TreeNext]_vars

\* The keyed reconciler on its own, as its unit tests call it: a parent whose
\* previous generation has the children olds is handed the elements els.
\* Children are li or p elements, with a key or without.
KeyedEls ==
  {Keyed(Host(t, UNSET, <<>>), k) : t \in {"li", "p"},
                                    k \in {UNSET} \cup (1..MaxKey)}

KeyedKids == UNION {[1..n -> KeyedEls] : n \in 0..MaxKids}

\* the previous parent is unit 1 and owns node NumContainers + 1, the parent
\* being processed is unit 2, the previous children are the units 3, 4, ...
\* with a node each
KeyedHeap(olds) ==
  [f \in FiberIds |->
     IF f = 1
     THEN [FreeFiber EXCEPT !.type = "ul", !.el = Host("ul", UNSET, olds),
                            !.dom = NumContainers + 1,
                            !.child = IF olds = <<>> THEN NULL ELSE 3,
                            !.effectTag = "PLACEMENT"]
     ELSE IF f = 2
     THEN [FreeFiber EXCEPT !.type = "ul", !.dom = NumContainers + 1,
                            !.alternate = 1, !.effectTag = "UPDATE"]
     ELSE IF f - 2 <= Len(olds)
     THEN [FreeFiber EXCEPT !.type = olds[f - 2].type, !.el = olds[f - 2],
                            !.dom = NumContainers + f - 1, !.parent = 1,
                            !.sibling = IF f - 2 < Len(olds) THEN f + 1 ELSE NULL,
                            !.effectTag = "PLACEMENT"]
     ELSE FreeFiber]

KeyedDoms(olds) ==
  [d \in DomIds |->
     IF d \in Containers
     THEN [tag |-> "container", val |-> UNSET, kids |-> <<>>]
     ELSE IF d = NumContainers + 1
     THEN [tag |-> "ul", val |-> UNSET,
           kids |-> [i \in 1..Len(olds) |-> NumContainers + 1 + i]]
     ELSE IF d - NumContainers - 1 <= Len(olds)
     THEN [tag |-> olds[d - NumContainers - 1].type, val |-> UNSET,
           kids |-> <<>>]
     ELSE FreeDom]

KeyedInit ==
  /\ \E olds \in KeyedKids :
       /\ fibers = KeyedHeap(olds)
       /\ dom = KeyedDoms(olds)
  /\ hookStates = [k \in CompTypes |-> UNSET]
  /\ updateQueues = [k \in CompTypes |-> <<>>]
  /\ deletions = <<>>
  /\ nextUnitOfWork = NULL
  /\ currentRoot = NULL
  /\ wipRoot = NULL
  /\ wipFiber = NULL
  /\ rootContainer = NULL
  /\ isWorkLoopRunning = FALSE
  /\ idleCallbacks = 0
  /\ pc = "idle"
  /\ shouldYield = FALSE
  /\ tasks = <<>>
  /\ elog = <<>>
  /\ cleanupRuns = [t \in Tokens |-> 0]
  /\ warned = FALSE
  /\ visited = <<>>
  /\ committed = NULL
  /\ calls = 0
  /\ tick = 0
  /\ passed = [k \in CompTypes |-> <<>>]
  /\ gap = [k \in CompTypes |-> 0]
  /\ seen = [k \in CompTypes |->
               [prev |-> 0, batch |-> <<>>, got |-> 0, gap |-> FALSE]]
  /\ refs = [r \in RefIds |-> UNSET]
  /\ insts = [i \in InstIds |-> FreeInst]
  /\ mutations = <<>>
  /\ lastElement = NullEl
  /\ aborted = FALSE

\* reconcileChildrenWithKeys(wipFiber, elements) is called on unit 2
ReconcileWithKeys(els) ==
  /\ pc = "idle"
  /\ calls = 0
  /\ calls' = 1
  /\ Install(reconcileChildrenWithKeys(
               [World EXCEPT !.fibs[2].el = Host("ul", UNSET, els)], 2, els))
  /\ UNCHANGED <<pc, shouldYield, tasks, visited, committed, tick>>

KeyedNext == \E els \in KeyedKids : ReconcileWithKeys(els)

KeyedSpec == KeyedInit /\ [][KeyedNext]_vars

\* ------------------------------------------------------------------ claims
\* the output tree under a node, and under each container
RECURSIVE OutputTree(_, _)
OutputTree(doms, d) ==
  [tag |-> doms[d].tag, val |-> doms[d].val,
   kids |-> [i \in 1..Len(doms[d].kids) |-> OutputTree(doms, doms[d].kids[i])]]

Output == [c \in Containers |-> OutputTree(dom, c)]

EmptyContainer == [tag |-> "container", val |-> UNSET, kids |-> <<>>]

\* the step is workLoop's call of commitRoot
CommitStep == pc = "loop" /\ nextUnitOfWork = NULL /\ wipRoot # NULL

\* the step is a call of render with a container other than rootContainer,
\* and all it does to the output is to empty that container
RebindStep ==
  /\ pc = "idle"
  /\ rootContainer' # rootContainer
  /\ Output' = [Output EXCEPT ![rootContainer'] = EmptyContainer]

\* C1 (as the code has it): the output tree under the containers changes only
\* in a commit step, which is one uninterrupted step, whatever the yields of
\* the render pass -- except that render called with a container other than
\* the current root container empties that container at the call.
C1_OutputChangesOnlyInCommitOrRebind ==
  [][Output' # Output => (CommitStep \/ RebindStep)]_vars

\* C1 as stated: from the trigger to the commit step the output tree is the
\* one the previous commit left, i.e. it changes in commit steps only.
C1_OutputChangesOnlyInCommit ==
  [][Output' # Output => CommitStep]_vars

\* a pass over a committed, non-empty tree is suspended part-way, having
\* created an output node that is not attached yet
C1_Witness ==
  /\ pc = "idle"
  /\ currentRoot # NULL
  /\ nextUnitOfWork # NULL
  /\ Len(visited) > 1
  /\ dom[rootContainer].kids # <<>>
  /\ \E f \in FiberIds :
       /\ fibers[f].dom # NULL
       /\ fibers[f].dom \notin ReachDom(dom, Containers)

\* a unit, then its whole subtree, then its next sibling
RECURSIVE PreOrder(_, _)
PreOrder(fibs, f) ==
  IF f = NULL THEN <<>>
  ELSE <<f>> \o PreOrder(fibs, fibs[f].child) \o PreOrder(fibs, fibs[f].sibling)

IsPrefix(s, t) == Len(s) <= Len(t) /\ \A i \in 1..Len(s) : s[i] = t[i]

\* C2: at every point of a render pass, suspended or not, the units processed
\* so far followed by the unit to process next are an initial segment of the
\* depth-first pre-order of the tree under construction; when the pass is
\* over, the units processed are that pre-order.
C2_DepthFirstPreOrder ==
  /\ wipRoot # NULL =>
       LET po == PreOrder(fibers, wipRoot) IN
         /\ IsPrefix(visited, po)
         /\ nextUnitOfWork = IF Len(visited) < Len(po)
                             THEN po[Len(visited) + 1] ELSE NULL
  /\ pc = "effects" /\ wipRoot = NULL =>
       visited = PreOrder(fibers, currentRoot)

\* a pass is suspended after a unit that has both a child and a sibling,
\* with units left to process
C2_Witness ==
  /\ pc = "idle"
  /\ wipRoot # NULL
  /\ nextUnitOfWork # NULL
  /\ \E i \in 1..Len(visited) :
       /\ fibers[visited[i]].child # NULL
       /\ fibers[visited[i]].sibling # NULL
       /\ i + 2 <= Len(visited)

\* the callbacks the effect pass has invoked so far, as indices of elog
EffectPhase == {i \in 1..Len(elog) : elog[i].phase = "effects"}

Pos(seq, x) == CHOOSE i \in 1..Len(seq) : seq[i] = x

\* C3 (as the code has it): the effect pass goes through the committed tree
\* unit by unit in depth-first order; at each unit all the stale cleanups
\* that are due run before any effect callback of that unit, and all the
\* callbacks of a unit run before those of the units that follow it.
C3_CleanupsThenEffectsPerUnit ==
  pc = "effects" =>
    \A i, j \in EffectPhase :
      i < j =>
        LET po == PreOrder(fibers, committed) IN
          /\ Pos(po, elog[i].fiber) <= Pos(po, elog[j].fiber)
          /\ elog[i].fiber = elog[j].fiber =>
               ~(elog[i].kind = "effect" /\ elog[j].kind = "cleanup")

\* C3 as stated: every stale cleanup of the effect pass runs before any
\* effect callback of the pass.
C3_AllCleanupsBeforeAnyEffect ==
  \A i, j \in EffectPhase :
    i < j => ~(elog[i].kind = "effect" /\ elog[j].kind = "cleanup")

\* an effect pass in which a unit's effect has run and then the two stale
\* cleanups of a later unit, followed by that unit's effect
C3_Witness ==
  /\ pc = "effects"
  /\ \E i, j, k, l \in EffectPhase :
       /\ i < j /\ j < k /\ k < l
       /\ elog[i].kind = "effect"
       /\ elog[i].fiber # elog[j].fiber
       /\ elog[j].kind = "cleanup" /\ elog[k].kind = "cleanup"
       /\ elog[j].fiber = elog[k].fiber
       /\ elog[l].kind = "effect" /\ elog[l].fiber = elog[k].fiber

\* the two lists differ in length or in some same-index element
ListsDiffer(a, b) ==
  \/ Len(a) # Len(b)
  \/ \E i \in 1..Len(a) : a[i] # b[i]

\* the effect hook elog[i] is about, and the hook of the previous generation
LogHook(i) == fibers[elog[i].fiber].hooks[elog[i].idx]

LogOldHook(i) == getPreviousHook(fibers, elog[i].fiber, elog[i].idx)

\* the effect run elog[i] is a re-run because the dependency list changed,
\* and the previous run returned a cleanup
ReRunOnChange(i) ==
  /\ elog[i].phase = "effects"
  /\ elog[i].kind = "effect"
  /\ elog[i].prev # NULL
  /\ LogOldHook(i).tag = "effect"
  /\ LogOldHook(i).has /\ LogHook(i).has
  /\ ListsDiffer(LogOldHook(i).deps, LogHook(i).deps)

\* C4: when an effect is re-run because its dependency list differs from the
\* previous generation's, the cleanup its previous run returned has been
\* invoked earlier in the same cycle.
C4_CleanupBeforeReRun ==
  pc = "effects" =>
    \A i \in 1..Len(elog) :
      ReRunOnChange(i) =>
        \E j \in 1..(i - 1) :
          /\ elog[j].kind = "cleanup"
          /\ elog[j].token = elog[i].prev

\* an effect has just been re-run on a changed list, after its cleanup
C4_Witness ==
  /\ pc = "effects"
  /\ \E i \in 1..Len(elog) :
       /\ ReRunOnChange(i)
       /\ \E j \in 1..(i - 1) :
            /\ elog[j].kind = "cleanup"
            /\ elog[j].token = elog[i].prev
            /\ elog[j].fiber = elog[i].fiber

\* a unit without the cleanups its effect hooks hold
StripCleanups(fib) ==
  [fib EXCEPT !.hooks = [i \in 1..Len(@) |-> [@[i] EXCEPT !.cleanup = NULL]]]

\* the work-in-progress root is one that scheduleRerender has just made from
\* the committed root
FreshFromCommitted ==
  /\ fibers[wipRoot].alternate = currentRoot
  /\ fibers[wipRoot].child = NULL
  /\ fibers[wipRoot].dom = fibers[currentRoot].dom
  /\ fibers[wipRoot].el = fibers[currentRoot].el
  /\ nextUnitOfWork = wipRoot

\* every callback of the effect pass has found the committed-root pointer on
\* the root just committed, and the work-in-progress pointer null or on a
\* root requested earlier in the pass
EffectPassContext ==
  /\ currentRoot = committed
  /\ wipRoot # NULL => FreshFromCommitted
  /\ \A i \in EffectPhase :
       /\ elog[i].cur = committed
       /\ elog[i].root = committed
       /\ elog[i].wip # NULL => \E j \in 1..(i - 1) : elog[j].kind = "effect"
       /\ elog[i].wip \notin {NULL, wipRoot} =>
            fibers[elog[i].wip].alternate = currentRoot

\* a step of the effect pass leaves the units of the committed tree as they
\* are, but for the cleanup an effect hook holds
CommittedTreeKept ==
  pc = "effects" /\ pc' = "effects" =>
    \A i \in 1..Len(PreOrder(fibers, committed)) :
      LET f == PreOrder(fibers, committed)[i] IN
        StripCleanups(fibers'[f]) = StripCleanups(fibers[f])

\* C5 (as the code has it): whenever an effect callback or a stale cleanup
\* runs in the effect pass, the committed-root pointer designates the root
\* just committed, and the work-in-progress root is absent or is a fresh root
\* that an earlier callback of the same pass requested, whose previous
\* generation is the root just committed; an update made from a callback
\* leaves the committed tree as it is.  (The cleanups of removed units run
\* inside the commit step, before the pointers are swapped.)
C5_EffectPassSeesCommittedRoot ==
  /\ [](pc = "effects" => EffectPassContext)
  /\ [][CommittedTreeKept]_vars

\* C5 as stated: every effect callback and every cleanup runs with the
\* committed-root pointer on the root just committed and no work-in-progress
\* root.
C5_NoWipRootWhenCallbackRuns ==
  \A i \in 1..Len(elog) : elog[i].cur = elog[i].root /\ elog[i].wip = NULL

\* an effect has requested an update during the effect pass, and a later
\* callback of the pass has run with that request pending
C5_Witness ==
  /\ pc = "effects"
  /\ wipRoot # NULL
  /\ \E i, j \in EffectPhase :
       /\ i < j
       /\ elog[i].kind = "effect" /\ elog[i].wip = NULL
       /\ elog[j].wip = wipRoot

\* the element at the root of the tree being rendered, or else committed
RootElement ==
  IF wipRoot # NULL THEN fibers[wipRoot].el.kids[1]
  ELSE IF currentRoot # NULL THEN fibers[currentRoot].el.kids[1]
  ELSE NullEl

HasA(el) ==
  \/ el.type = "A"
  \/ \E i \in 1..Len(el.kids) : el.kids[i].type = "A"

\* an effect has requested a state update during the effect pass
UpdateRequestedByEffect == pc = "effects" /\ wipRoot # NULL

\* the text that the committed unit f of component A has put in the output
\* tree under the root container
TextOf(f) == dom[fibers[fibers[fibers[f].child].child].dom]

\* a commit has just been made that shows the state of component A, with no
\* update of it left in the queue
CommitShowsState ==
  /\ pc = "effects"
  /\ EffectPhase = {}
  /\ currentRoot = committed
  /\ updateQueues["A"] = <<>>
  /\ \E i \in 1..Len(PreOrder(fibers, currentRoot)) :
       LET f == PreOrder(fibers, currentRoot)[i] IN
         /\ fibers[f].type = "A"
         /\ TextOf(f).val = hookStates["A"]
         /\ Contains(dom, rootContainer,
                     fibers[fibers[fibers[f].child].child].dom)

\* C6: a state update requested from inside an effect is followed by a
\* commit that shows the state (unless the application has meanwhile rendered
\* something without the component), and while a render is pending with no
\* handler running, an idle callback is outstanding.
C6_EffectUpdateLeadsToCommit ==
  /\ UpdateRequestedByEffect ~> (CommitShowsState \/ ~HasA(RootElement))
  /\ [](pc = "idle" /\ wipRoot # NULL =>
          idleCallbacks > 0 /\ isWorkLoopRunning)

\* the effect pass is over after an effect requested an update: the work
\* loop has asked for another idle callback
C6_Witness ==
  /\ pc = "idle"
  /\ wipRoot # NULL
  /\ fibers[wipRoot].child = NULL
  /\ updateQueues["A"] # <<>>
  /\ idleCallbacks > 0
  /\ \E i \in EffectPhase : elog[i].kind = "effect"

\* the last element of a non-empty sequence
Last(q) == q[Len(q)]

\* C7 as stated (the value part): when the setter calls since the component's
\* previous render were made back to back, with no slice of the work loop
\* between two of them, and passed plain values, the component's next render
\* reads the value of the last call.
C7_RenderSeesLastCall ==
  \A k \in CompTypes :
    /\ seen[k].batch # <<>>
    /\ ~seen[k].gap
    /\ \A i \in 1..Len(seen[k].batch) : ~seen[k].batch[i].fn
    => seen[k].got = Last(seen[k].batch).v

\* C8 as stated: the value a render reads is the fold, in call order, of
\* every action handed to the setter since the previous render, from the
\* previous value.
C8_StateIsFoldOfActions ==
  \A k \in CompTypes : seen[k].got = Drain(seen[k].batch, seen[k].prev)

\* the variables of the library (all but the bookkeeping of this model)
programVars ==
  <<fibers, dom, hookStates, updateQueues, deletions, nextUnitOfWork,
    currentRoot, wipRoot, wipFiber, rootContainer, isWorkLoopRunning,
    idleCallbacks, refs, insts>>

\* the step is a call of the setter of k with an action that yields the
\* value the cell holds
IdentityCall(k) ==
  /\ Len(passed'[k]) = Len(passed[k]) + 1
  /\ passed[k] = SubSeq(passed'[k], 1, Len(passed[k]))
  /\ Apply(Last(passed'[k]), hookStates[k]) = hookStates[k]

\* C9: a setter call whose resulting value is identical to the value the cell
\* holds leaves the update queues, the scheduler and the trees as they were.
C9_IdentityCallChangesNothing ==
  [][\A k \in CompTypes : IdentityCall(k) => UNCHANGED programVars]_vars

\* the setter has been called with the value the cell holds, on a committed
\* tree with nothing scheduled
C9_Witness ==
  /\ pc = "idle"
  /\ currentRoot # NULL
  /\ wipRoot = NULL
  /\ idleCallbacks = 0
  /\ updateQueues["A"] = <<>>
  /\ \E i \in 1..Len(passed["A"]) :
       Apply(passed["A"][i], hookStates["A"]) = hookStates["A"]

\* the effect pass has made all its visits
EffectPassOver == pc = "effects" /\ SkipNotDue(fibers, tasks) = <<>>

\* the effect hooks of the committed tree, as <<unit, hook index>>
EffectHooks ==
  LET po == PreOrder(fibers, committed) IN
  {h \in {po[n] : n \in 1..Len(po)} \X (1..3) :
     /\ h[2] <= Len(fibers[h[1]].hooks)
     /\ fibers[h[1]].hooks[h[2]].tag = "effect"}

Ran(f, i) ==
  \E n \in EffectPhase :
    elog[n].kind = "effect" /\ elog[n].fiber = f /\ elog[n].idx = i

\* the condition of the claim for the effect hook i of unit f: no list, no
\* previous generation, or a list that differs from the previous one (an
\* absent previous list counted as different)
MustRun(f, i) ==
  LET hook == fibers[f].hooks[i]
      alt == fibers[f].alternate
  IN \/ ~hook.has
     \/ alt = NULL
     \/ ~fibers[alt].hooks[i].has
     \/ ListsDiffer(fibers[alt].hooks[i].deps, hook.deps)

\* C10: in the effect pass after a commit, an effect callback runs if and
\* only if its list is absent, or its unit has no previous generation, or
\* the list differs from the previous generation's in length or in some
\* element; an effect that keeps the empty list does not run again.
C10_EffectRunsIffDepsChanged ==
  /\ pc = "effects" =>
       \A h \in EffectHooks : Ran(h[1], h[2]) => MustRun(h[1], h[2])
  /\ EffectPassOver =>
       \A h \in EffectHooks :
         /\ MustRun(h[1], h[2]) => Ran(h[1], h[2])
         /\ ( /\ fibers[h[1]].alternate # NULL
              /\ fibers[h[1]].hooks[h[2]].has
              /\ fibers[h[1]].hooks[h[2]].deps = <<>>
              /\ fibers[fibers[h[1]].alternate].hooks[h[2]].has
              /\ fibers[fibers[h[1]].alternate].hooks[h[2]].deps = <<>> )
            => ~Ran(h[1], h[2])

\* an effect pass is over in which one effect ran because its list changed
\* and another, whose list is the same as before, did not run
C10_Witness ==
  /\ EffectPassOver
  /\ \E g, h \in EffectHooks :
       /\ fibers[g[1]].alternate # NULL /\ fibers[h[1]].alternate # NULL
       /\ fibers[g[1]].hooks[g[2]].has /\ fibers[h[1]].hooks[h[2]].has
       /\ fibers[fibers[g[1]].alternate].hooks[g[2]].has
       /\ Ran(g[1], g[2])
       /\ ~Ran(h[1], h[2])
       /\ fibers[h[1]].hooks[h[2]].deps # <<>>

\* the units of a tree, as a set
Units(fibs, root) ==
  LET po == PreOrder(fibs, root) IN {po[n] : n \in 1..Len(po)}

\* the units of the committed tree that the tree about to be committed does
\* not carry on
RemovedUnits ==
  {f \in Units(fibers, currentRoot) :
     /\ f # currentRoot
     /\ \A g \in Units(fibers, wipRoot) : fibers[g].alternate # f}

\* the cleanups that the effect hooks of the removed components hold
RemovedCleanups ==
  UNION {{fibers[f].hooks[i].cleanup : i \in 1..Len(fibers[f].hooks)} :
           f \in {g \in RemovedUnits : IsFunction(fibers[g].type)}} \ {NULL}

\* the number of invocations of the cleanup closure t in a log
CleanupCount(log, t) ==
  Len(SelectSeq(log, LAMBDA e : e.kind = "cleanup" /\ e.token = t))

\* the step is a commit that completes (no exception leaves commitRoot)
CommitDone == CommitStep /\ pc' = "effects"

\* C11 as stated: a commit that removes a component invokes the cleanup that
\* each of its effects registered last, once, and that cleanup has then been
\* invoked exactly once since it was registered.
C11_RemovedCleanupOnce ==
  [][CommitDone /\ currentRoot # NULL =>
       \A t \in RemovedCleanups :
         /\ CleanupCount(elog', t) = 1
         /\ cleanupRuns'[t] = 1]_vars

\* the output nodes of the units c, c.sibling, ... : a unit's own node, or
\* for a component those of its children
RECURSIVE HostKids(_, _)
HostKids(fibs, c) ==
  IF c = NULL THEN <<>>
  ELSE (IF fibs[c].dom # NULL THEN <<fibs[c].dom>>
        ELSE HostKids(fibs, fibs[c].child))
       \o HostKids(fibs, fibs[c].sibling)

\* C12 as stated: after every commit, the children attached to the output
\* node of each host unit of the committed tree (the container for the root)
\* are the output nodes of the unit's host children, in the order of the
\* rendered elements.
C12_OutputMatchesCommittedTree ==
  pc = "effects" =>
    \A f \in Units(fibers, currentRoot) :
      fibers[f].dom # NULL =>
        dom[fibers[f].dom].kids = HostKids(fibers, fibers[f].child)

\* the tree about to be committed was rendered from the element the
\* committed tree was rendered from, into the same container
SameTreeAgain ==
  /\ currentRoot # NULL
  /\ fibers[wipRoot].alternate = currentRoot
  /\ fibers[wipRoot].dom = fibers[currentRoot].dom
  /\ fibers[wipRoot].el = fibers[currentRoot].el

\* no component of the tree read a state other than the one its previous
\* generation read
StateKept ==
  \A g \in Units(fibers, wipRoot) :
    IsFunction(fibers[g].type) /\ fibers[g].alternate # NULL =>
      fibers[g].hooks[1].state = fibers[fibers[g].alternate].hooks[1].state

\* C13: when the element that was rendered and committed is rendered again
\* into the same container, every unit of the second pass is tagged UPDATE,
\* the deletion list is empty, and the commit leaves every output node where
\* it was (same nodes, same children); if no component state has changed in
\* between, the content is the same too.
C13_SameTreeNoChange ==
  [][CommitStep /\ SameTreeAgain =>
       /\ pc' = "effects"
       /\ deletions = <<>>
       /\ \A g \in Units(fibers, wipRoot) \ {wipRoot} :
            /\ fibers[g].effectTag = "UPDATE"
            /\ fibers[g].alternate \in Units(fibers, currentRoot)
            /\ fibers[g].dom = fibers[fibers[g].alternate].dom
       /\ \A d \in DomIds :
            dom'[d].tag = dom[d].tag /\ dom'[d].kids = dom[d].kids
       /\ StateKept => dom' = dom]_vars

\* a tree with a component and a host element has just been committed a
\* second time from the same element
C13_Witness ==
  /\ pc = "effects"
  /\ currentRoot = committed
  /\ fibers[currentRoot].alternate # NULL
  /\ fibers[currentRoot].el = fibers[fibers[currentRoot].alternate].el
  /\ fibers[fibers[currentRoot].alternate].child # NULL
  /\ \E g, h \in Units(fibers, currentRoot) :
       /\ IsFunction(fibers[g].type) /\ fibers[g].effectTag = "UPDATE"
       /\ fibers[h].type = "TEXT" /\ fibers[h].effectTag = "UPDATE"
       /\ Contains(dom, rootContainer, fibers[h].dom)

\* the units c, c.sibling, ... in order
RECURSIVE Chain(_, _)
Chain(fibs, c) ==
  IF c = NULL THEN <<>> ELSE <<c>> \o Chain(fibs, fibs[c].sibling)

\* the previous child o and the new unit n of one position differ in kind
\* and have been reconciled as a removal and a creation
Replaced(o, n) ==
  /\ fibers'[o].effectTag = "DELETION"
  /\ InSeq(deletions', o)
  /\ fibers'[n].effectTag = "PLACEMENT"
  /\ fibers'[n].dom = NULL
  /\ fibers'[n].alternate = NULL

\* C14: when a unit has been processed, at every position where its new
\* child and the previous child differ in kind, the previous child is tagged
\* DELETION and is on the deletion list, and the new unit is tagged PLACEMENT
\* with no output node and no previous generation (so it is not UPDATE); at
\* the positions of equal kind the new unit is tagged UPDATE.
C14_KindChangeIsRemoveAndCreate ==
  [][pc = "loop" /\ nextUnitOfWork # NULL /\ ~shouldYield
       /\ fibers[nextUnitOfWork].alternate # NULL =>
     LET f == nextUnitOfWork
         old == Chain(fibers, fibers[fibers[f].alternate].child)
         new == Chain(fibers', fibers'[f].child)
     IN \A i \in 1..Len(new) :
          i <= Len(old) =>
            IF fibers'[new[i]].type # fibers[old[i]].type
            THEN Replaced(old[i], new[i])
            ELSE /\ fibers'[new[i]].effectTag = "UPDATE"
                 /\ fibers'[new[i]].alternate = old[i]]_vars

\* a unit has been processed whose first child changed kind and whose second
\* child kept its kind
C14_Witness ==
  /\ pc = "loop"
  /\ \E g \in Units(fibers, wipRoot) :
       /\ fibers[g].alternate # NULL
       /\ LET old == Chain(fibers, fibers[fibers[g].alternate].child)
              new == Chain(fibers, fibers[g].child)
          IN /\ Len(old) = 2 /\ Len(new) = 2
             /\ fibers[new[1]].type # fibers[old[1]].type
             /\ fibers[old[1]].effectTag = "DELETION"
             /\ InSeq(deletions, old[1])
             /\ fibers[new[1]].effectTag = "PLACEMENT"
             /\ fibers[new[2]].effectTag = "UPDATE"
             /\ fibers[new[2]].alternate = old[2]

\* the units of the chain all carry a key, no key twice
AllKeyed(fibs, chain) ==
  /\ \A i \in 1..Len(chain) : fibs[chain[i]].el.key # UNSET
  /\ \A i, j \in 1..Len(chain) :
       fibs[chain[i]].el.key = fibs[chain[j]].el.key => i = j

\* new is old in another order: same keys, same kind under each key
Reordered(old, new) ==
  /\ Len(old) = Len(new)
  /\ AllKeyed(fibers, old)
  /\ AllKeyed(fibers', new)
  /\ \A i \in 1..Len(new) : \E j \in 1..Len(old) :
       /\ fibers'[new[i]].el.key = fibers[old[j]].el.key
       /\ fibers'[new[i]].type = fibers[old[j]].type
  /\ \E i \in 1..Len(new) : fibers'[new[i]].el.key # fibers[old[i]].el.key

\* C15 as stated: when a unit whose keyed children have been re-rendered in
\* another order is processed, the new unit of each key is tagged UPDATE and
\* has the output node that the previous unit with that key had, and no
\* previous child is tagged DELETION.
C15_KeyedReorderKeepsHandles ==
  [][pc = "loop" /\ nextUnitOfWork # NULL /\ ~shouldYield
       /\ fibers[nextUnitOfWork].alternate # NULL =>
     LET f == nextUnitOfWork
         old == Chain(fibers, fibers[fibers[f].alternate].child)
         new == Chain(fibers', fibers'[f].child)
     IN Reordered(old, new) =>
          /\ \A i \in 1..Len(new) : \A j \in 1..Len(old) :
               fibers'[new[i]].el.key = fibers[old[j]].el.key =>
                 /\ fibers'[new[i]].effectTag = "UPDATE"
                 /\ fibers'[new[i]].dom = fibers[old[j]].dom
          /\ \A j \in 1..Len(old) : fibers'[old[j]].effectTag # "DELETION"]_vars

\* the previous child the lookup holds under a key: the last one with it
Lookup(old, key) ==
  LET hits == {j \in 1..Len(old) : KeyOf(fibers[old[j]].el, j - 1) = key}
  IN IF hits = {} THEN NULL
     ELSE old[CHOOSE j \in hits : \A h \in hits : h <= j]

\* C16: after the keyed reconciler has run on a parent, no previous child is
\* the previous generation of two new units; the new unit of an element is
\* tagged UPDATE, with the node of the previous child the lookup holds under
\* its key, when that child is of the same kind and no earlier element took
\* it, and otherwise it is tagged PLACEMENT with no node and no previous
\* generation; every previous child of the lookup that no new unit took is
\* tagged DELETION and is on the deletion list, and nothing else is.
C16_KeyedSingleConsumption ==
  calls = 1 /\ fibers[2].alternate = 1 /\ fibers[2].parent = NULL =>
    LET old == Chain(fibers, fibers[1].child)
        new == Chain(fibers, fibers[2].child)
        els == fibers[2].el.kids
        hit(i) == Lookup(old, KeyOf(els[i], i - 1))
        taken(i) == /\ hit(i) # NULL
                    /\ fibers[hit(i)].type = els[i].type
                    /\ \A j \in 1..(i - 1) : fibers[new[j]].alternate # hit(i)
        left == {o \in {Lookup(old, k) : k \in 0..(MaxKey + MaxKids)} \ {NULL} :
                   \A i \in 1..Len(new) : fibers[new[i]].alternate # o}
    IN /\ Len(new) = Len(els)
       /\ \A i, j \in 1..Len(new) :
            /\ fibers[new[i]].alternate # NULL
            /\ fibers[new[i]].alternate = fibers[new[j]].alternate
            => i = j
       /\ \A i \in 1..Len(new) :
            /\ fibers[new[i]].el = els[i]
            /\ IF taken(i)
               THEN /\ fibers[new[i]].effectTag = "UPDATE"
                    /\ fibers[new[i]].alternate = hit(i)
                    /\ fibers[new[i]].dom = fibers[hit(i)].dom
               ELSE /\ fibers[new[i]].effectTag = "PLACEMENT"
                    /\ fibers[new[i]].alternate = NULL
                    /\ fibers[new[i]].dom = NULL
       /\ \A j \in 1..Len(old) :
            fibers[old[j]].effectTag = "DELETION" <=> old[j] \in left
       /\ {deletions[n] : n \in 1..Len(deletions)} = left
       /\ Len(deletions) = Cardinality(left)

\* two elements with the same key were reconciled against two previous
\* children: the first took the child with that key, the second was
\* created, and the other previous child is to be removed
C16_Witness ==
  /\ calls = 1 /\ fibers[2].alternate = 1 /\ fibers[2].parent = NULL
  /\ LET old == Chain(fibers, fibers[1].child)
         new == Chain(fibers, fibers[2].child)
     IN /\ Len(old) = 2 /\ Len(new) = 2
        /\ fibers[new[1]].el.key # UNSET
        /\ fibers[new[1]].el.key = fibers[new[2]].el.key
        /\ fibers[new[1]].el.type = fibers[new[2]].el.type
        /\ fibers[new[1]].effectTag = "UPDATE"
        /\ fibers[new[1]].alternate = old[2]
        /\ fibers[new[2]].effectTag = "PLACEMENT"
        /\ deletions = <<old[1]>>

\* the work loops in being: the idle callbacks outstanding, and the one
\* that is running
ActiveLoops == idleCallbacks + (IF pc = "idle" THEN 0 ELSE 1)

\* C17 as stated: at most one work loop is in being -- at most one idle
\* callback is outstanding, and none while workLoop runs -- whatever
\* triggers arrive while a cycle is in flight.
C17_AtMostOneWorkLoop == ActiveLoops <= 1

\* C18 as stated: once a pass has committed and nothing is left to render,
\* the work loop has returned without asking for another idle callback: no
\* callback is outstanding and the loop is marked stopped, so that only a
\* trigger can start it again.
C18_IdleAfterCommit ==
  pc = "idle" /\ currentRoot # NULL /\ wipRoot = NULL /\ nextUnitOfWork = NULL
  => idleCallbacks = 0 /\ ~isWorkLoopRunning

\* the step is workLoop returning with units left to process
YieldStep ==
  /\ pc = "loop" /\ pc' = "idle"
  /\ nextUnitOfWork # NULL
  /\ visited' = visited

\* a render pass is in flight and the application has made n calls so far
PassInFlight(n) == wipRoot # NULL /\ pc # "effects" /\ calls = n

RECURSIVE FinishPass(_)
FinishPass(w) ==
  IF w.next = NULL \/ w.err THEN w
  ELSE LET r == performUnitOfWork([w EXCEPT !.wf = w.next], w.next)
       IN FinishPass([r.m EXCEPT !.next = r.next])

\* the units c, c.sibling, ... and what is below them, without their
\* addresses
RECURSIVE TreeOf(_, _)
TreeOf(fibs, c) ==
  IF c = NULL THEN <<>>
  ELSE <<[type |-> fibs[c].type, el |-> fibs[c].el,
          effectTag |-> fibs[c].effectTag, hooks |-> fibs[c].hooks,
          kids |-> TreeOf(fibs, fibs[c].child)]>>
       \o TreeOf(fibs, fibs[c].sibling)

\* what a commit of the tree root with the deletion list dels has produced
\* in the heaps fibs and doms
Produced(fibs, doms, root, dels, err) ==
  [tree |-> TreeOf(fibs, root),
   dels |-> [i \in 1..Len(dels) |-> TreeOf(fibs, dels[i])],
   out |-> [c \in Containers |-> OutputTree(doms, c)],
   err |-> err]

\* what the pass in flight produces when the rest of it runs in one slice
Outcome(w) ==
  LET w1 == FinishPass(w)
      ctx == [cur |-> w1.cur, wip |-> w1.wip, root |-> w1.wip,
              phase |-> "commit"]
      c == IF w1.err THEN w1
           ELSE commitRoot([w1 EXCEPT !.log = <<>>], w1.wip, w1.dels, ctx)
  IN Produced(c.fibs, c.doms, w1.wip, w1.dels, c.err)

\* the program memory as the step leaves it
WorldAfter ==
  [fibs |-> fibers', doms |-> dom', hs |-> hookStates', qs |-> updateQueues',
   dels |-> deletions', err |-> FALSE, log |-> elog', runs |-> cleanupRuns',
   next |-> nextUnitOfWork', cur |-> currentRoot', wip |-> wipRoot',
   wf |-> wipFiber', rc |-> rootContainer', running |-> isWorkLoopRunning',
   cbs |-> idleCallbacks', warned |-> warned', passed |-> passed',
   gap |-> gap', seen |-> seen', refs |-> refs', insts |-> insts',
   muts |-> mutations', last |-> lastElement', aborted |-> aborted']

\* C20: while a render pass is in flight and the application makes no call,
\* every step of the work loop -- a unit, a yield, the next idle callback --
\* leaves unchanged what the rest of the pass run in one slice would
\* commit, and the commit step produces just that: the committed tree, the
\* deletion list and the output tree do not depend on where the loop
\* yielded.
C20_YieldsDoNotChangeOutcome ==
  [][wipRoot # NULL /\ pc # "effects" /\ calls' = calls =>
       IF CommitStep
       THEN Produced(fibers', dom', wipRoot, deletions, pc' # "effects")
              = Outcome(World)
       ELSE Outcome(WorldAfter) = Outcome(World)]_vars

\* a pass that has units to remove is suspended part-way
C20_Witness ==
  /\ pc = "idle"
  /\ currentRoot # NULL
  /\ wipRoot # NULL
  /\ nextUnitOfWork # NULL
  /\ deletions # <<>>
  /\ Len(visited) >= 2
  /\ idleCallbacks = 1

\* ------------------------------------------------------------- exceptions
\* The application of the exception runs renders, into the first container,
\* nothing; a div holding A and B whose effects have no dependency list; the
\* same div where A's effect body throws, where the cleanup A's effect
\* returns throws, and where A's body throws.
Pair(what) ==
  Host("div", UNSET, <<Failing(CompA(FALSE, <<>>, FALSE, FALSE), what),
                       CompB(FALSE, <<>>, FALSE, FALSE)>>)

ErrElements ==
  {NullEl, Pair("no"), Pair("effect"), Pair("cleanup"), Pair("render")}

ErrNext ==
  \/ \E e \in ErrElements : Render(e, 1)
  \/ \E a \in Actions : SetState("A", a)
  \/ IdleCallback
  \/ PerformUnit
  \/ Commit
  \/ RunEffect
  \/ WorkLoopEnd

ErrSpec == Init /\ [][ErrNext]_vars

\* the while loop is about to run a component whose body throws
ThrowStep ==
  /\ pc = "loop" /\ nextUnitOfWork # NULL /\ ~shouldYield
  /\ fibers[nextUnitOfWork].el.fail = "render"

\* C21: when a component's body throws during a render pass, the output tree
\* and the committed-root pointer stay as they are and the callback ends
\* without a commit; a tree that holds such a component is never committed.
C21_ThrowMeansNoCommit ==
  [][ /\ ThrowStep => /\ Output' = Output
                      /\ currentRoot' = currentRoot
                      /\ committed' = committed
                      /\ wipRoot' = wipRoot
                      /\ pc' = "idle"
      /\ CommitStep =>
           \A f \in Units(fibers, wipRoot) : fibers[f].el.fail # "render"
    ]_vars

\* a body has thrown in a pass that followed a commit: the callback has ended
\* on the throwing unit and the previous tree is still the committed one
C21_Witness ==
  /\ pc = "idle"
  /\ nextUnitOfWork \in FiberIds
  /\ fibers[nextUnitOfWork].el.fail = "render"
  /\ visited # <<>> /\ visited[Len(visited)] = nextUnitOfWork
  /\ currentRoot # NULL /\ wipRoot # NULL /\ wipRoot # currentRoot
  /\ Output[1] # <<>>

\* a component's body throws in this step
Thrown == ThrowStep /\ visited' # visited

\* the step is a call the application makes: render() or a setter
TriggerCall == calls' = calls + 1

\* C22: an exception thrown by a component's body is delivered to the call
\* that triggered the cycle: the body runs, and throws, inside that render()
\* or setter call and not inside a callback the host runs later.
C22_ThrowDeliveredToTrigger == [][Thrown => TriggerCall]_vars

\* the stale cleanup of effect hook i of unit f has been invoked in this
\* effect pass
Cleaned(f, i) ==
  \E n \in EffectPhase :
    elog[n].kind = "cleanup" /\ elog[n].fiber = f /\ elog[n].idx = i

\* every due effect and every due stale cleanup of the committed tree has
\* been invoked in this effect pass
AllDueRan ==
  \A h \in EffectHooks :
    /\ MustRun(h[1], h[2]) => Ran(h[1], h[2])
    /\ shouldRunCleanup(fibers, [fiber |-> h[1], idx |-> h[2], kind |-> "cleanup"])
         => Cleaned(h[1], h[2])

\* the callbacks of the cycle that threw, as positions of the log
Caught == {n \in 1..Len(elog) : elog[n].threw}

\* C23: an exception of an effect body or of a cleanup is caught where it is
\* thrown: the effect pass changes nothing in the output tree, it ends only
\* when every due cleanup and effect of the committed tree has been invoked,
\* and the callback then returns through the tail of the work loop; a
\* commit that invokes a throwing cleanup of a removed unit still completes.
C23_EffectExceptionsAreIsolated ==
  [][ /\ pc = "effects" =>
           /\ Output' = Output
           /\ currentRoot' = currentRoot
           /\ pc' \in {"effects", "idle"}
      /\ (pc = "effects" /\ pc' = "idle") =>
           /\ EffectPassOver
           /\ AllDueRan
           /\ tasks' = <<>>
           /\ isWorkLoopRunning' = (nextUnitOfWork # NULL \/ wipRoot # NULL)
      /\ (CommitStep /\ \E n \in 1..Len(elog') : elog'[n].threw) =>
           /\ pc' = "effects"
           /\ currentRoot' = wipRoot
    ]_vars

\* an effect pass is over in which an effect body threw and, after it,
\* a cleanup threw, and callbacks of other hooks were invoked after each
C23_Witness ==
  /\ EffectPassOver
  /\ \E n \in Caught : \E k \in Caught :
       /\ elog[n].kind = "effect" /\ elog[k].kind = "cleanup"
       /\ \E j \in (n + 1)..Len(elog) : elog[j].kind = "effect" /\ ~elog[j].threw
       /\ \E j \in (k + 1)..Len(elog) : ~elog[j].threw
  /\ Output[1] # <<>>

\* C24: whenever no component is being invoked (no handler of the library is
\* running and no render pass is in flight: before the first render and
\* after a pass has completed), a hook call throws the error that names the
\* hook.
C24_HookOutsideComponentThrows ==
  (pc = "idle" /\ wipRoot = NULL /\ nextUnitOfWork = NULL)
    => validateHookCall(World)

\* the application calls a setter that goes on to scheduleRerender (the new
\* value differs from the stored one, so the action is queued)
RerenderRequest == TriggerCall /\ updateQueues' # updateQueues

\* C25: a re-render request made while there is no committed root logs the
\* warning and changes nothing in the scheduler: no root in progress is
\* created, the next unit of work stays, no idle callback is requested.
C25_NoRootRerenderIsNoOp ==
  [][(RerenderRequest /\ currentRoot = NULL) =>
       /\ warned'
       /\ currentRoot' = NULL
       /\ wipRoot' = wipRoot
       /\ nextUnitOfWork' = nextUnitOfWork
       /\ idleCallbacks' = idleCallbacks
       /\ isWorkLoopRunning' = isWorkLoopRunning
       /\ deletions' = deletions
       /\ fibers' = fibers
       /\ dom' = dom
    ]_vars

\* the setter has been called with a new value while the first pass of a
\* container was in flight: the warning is logged and the action is queued
C25_Witness ==
  /\ pc = "idle" /\ warned /\ currentRoot = NULL
  /\ \E k \in CompTypes : updateQueues[k] # <<>>
  /\ wipRoot # NULL

\* a container's first pass is in flight: a root in progress and no
\* committed root
FirstPass == currentRoot = NULL /\ wipRoot # NULL

\* C26: after render() into a container other than the bound one the session
\* starts afresh: the committed root is null, the pass in flight is the new
\* container's, and in that first pass every unit is tagged for creation and
\* every state cell that no setter was called on holds its initial value.
C26_RebindIsFirstMount ==
  FirstPass =>
    /\ fibers[wipRoot].dom = rootContainer
    /\ fibers[wipRoot].alternate = NULL
    /\ \A f \in Units(fibers, wipRoot) \ {wipRoot} :
         /\ fibers[f].effectTag = "PLACEMENT"
         /\ ( /\ IsFunction(fibers[f].type)
              /\ fibers[f].hooks # <<>>
              /\ seen[fibers[f].type].batch = <<>> )
            => fibers[f].hooks[1].state = 0

\* -------------------------------------------------------- the other hooks
\* The application of the hook runs renders, into the first container,
\* nothing or component R, and calls R's dispatch function.  R is handed no
\* dependency list, the list [], the list [state], the list [1] and the
\* list [1, 1].
CompR(has, deps, onCount) == Comp("R", has, deps, onCount, FALSE)

HookElements ==
  {NullEl, CompR(FALSE, <<>>, FALSE), CompR(TRUE, <<>>, FALSE),
   CompR(TRUE, <<>>, TRUE), CompR(TRUE, <<1>>, FALSE),
   CompR(TRUE, <<1, 1>>, FALSE)}

HookNext ==
  \/ \E e \in HookElements : Render(e, 1)
  \/ \E a \in ReducerActions : Dispatch("R", a)
  \/ \E r \in RefIds : \E v \in 0..1 : WriteRef(r, v)
  \/ IdleCallback
  \/ PerformUnit
  \/ Commit
  \/ WorkLoopEnd

HookSpec == Init /\ [][HookNext]_vars

\* the application calls R's dispatch function
DispatchStep == TriggerCall /\ passed'["R"] # passed["R"]

\* after the step one render pass is pending and has not begun: the root in
\* progress is a new generation of the committed root, it is the next unit
\* of work, and one idle callback is outstanding for it
OnePassPending ==
  /\ wipRoot' # NULL
  /\ nextUnitOfWork' = wipRoot'
  /\ visited' = <<>>
  /\ currentRoot' = currentRoot
  /\ fibers'[wipRoot'].alternate = currentRoot
  /\ isWorkLoopRunning'
  /\ idleCallbacks' = 1

\* C27 as stated: every dispatch call leaves exactly one render pending, and
\* the state R's next render reads is the reducer folded, in dispatch order,
\* over the actions dispatched since its previous render.
C27_DispatchCausesOneRender ==
  [][ /\ seen'["R"].got = Fold(seen'["R"].batch, seen'["R"].prev)
      /\ DispatchStep => OnePassPending
    ]_vars

\* C27 with its precondition: the same, for dispatch calls made while a
\* committed root exists.
C27_DispatchBatch ==
  [][ /\ seen'["R"].got = Fold(seen'["R"].batch, seen'["R"].prev)
      /\ (DispatchStep /\ currentRoot # NULL) =>
           /\ OnePassPending
           /\ updateQueues'["R"] = Append(updateQueues["R"], passed'["R"][Len(passed'["R"])])
      /\ (pc = "effects" /\ pc' = "idle") =>
           /\ nextUnitOfWork' = NULL /\ wipRoot' = NULL
           /\ ~isWorkLoopRunning' /\ idleCallbacks' = 0
    ]_vars

\* R has been rendered once after two different actions were dispatched back
\* to back on a committed tree, and has read their fold
C27_Witness ==
  /\ currentRoot # NULL
  /\ Len(seen["R"].batch) = 2
  /\ seen["R"].batch[1] # seen["R"].batch[2]
  /\ ~seen["R"].gap
  /\ seen["R"].got = Fold(seen["R"].batch, seen["R"].prev)
  /\ seen["R"].got # seen["R"].prev
  /\ updateQueues["R"] = <<>>

\* the useMemo and useCallback hooks of the units rendered so far, as
\* <<unit, hook index>>
MemoHooks ==
  {h \in FiberIds \X (1..3) :
     /\ h[2] <= Len(fibers[h[1]].hooks)
     /\ fibers[h[1]].hooks[h[2]].tag = "memo"}

\* the value of the hook was computed in this generation
Recomputed(f, i) ==
  LET old == getPreviousHook(fibers, f, i) IN
  old.tag = "none" \/ fibers[f].hooks[i].id # old.id

\* the rule of the effects: no list, no previous generation, or a list that
\* differs from the previous one in length or in some element
MustRecompute(f, i) ==
  LET hook == fibers[f].hooks[i]
      old == getPreviousHook(fibers, f, i)
  IN \/ ~hook.has
     \/ old.tag = "none"
     \/ ~old.has
     \/ ListsDiffer(old.deps, hook.deps)

\* C28: useMemo and useCallback compute a new value exactly when the
\* dependency list is absent, there is no previous generation, or the list
\* differs from the previous generation's; otherwise they return the
\* previous generation's value itself.
C28_MemoFollowsEffectRule ==
  \A h \in MemoHooks :
    /\ Recomputed(h[1], h[2]) <=> MustRecompute(h[1], h[2])
    /\ ~Recomputed(h[1], h[2]) =>
         fibers[h[1]].hooks[h[2]].state =
           getPreviousHook(fibers, h[1], h[2]).state

\* The application of the context runs renders, into the first container,
\* nothing; the consumer C alone, under a Theme Provider, under two nested
\* Theme Providers, under a Theme Provider with a User Provider inside, and
\* under a User Provider only.
Consumer == [NullEl EXCEPT !.type = "C"]

Provide(ctx, value, kids) ==
  [NullEl EXCEPT !.type = ProviderOf[ctx], !.val = value, !.kids = kids]

CtxElements ==
  { NullEl,
    Consumer,
    Provide("Theme", 1, <<Consumer>>),
    Provide("Theme", 1, <<Provide("Theme", 2, <<Consumer>>)>>),
    Provide("Theme", 2, <<Provide("User", 1, <<Consumer>>)>>),
    Provide("User", 1, <<Consumer>>) }

CtxNext ==
  \/ \E e \in CtxElements : Render(e, 1)
  \/ IdleCallback
  \/ PerformUnit
  \/ Commit
  \/ WorkLoopEnd

CtxSpec == Init /\ [][CtxNext]_vars

\* the value prop of the nearest Provider of ctx among the ancestors of a
\* unit, read off the elements of the tree; the default when there is none
RECURSIVE NearestProvider(_, _)
NearestProvider(g, ctx) ==
  IF g = NULL THEN DefaultValue
  ELSE IF fibers[g].type = ProviderOf[ctx] THEN fibers[g].el.val
  ELSE NearestProvider(fibers[g].parent, ctx)

\* the consumer units that have been rendered
RenderedConsumers ==
  {f \in FiberIds : fibers[f].type \in Consumers /\ fibers[f].hooks # <<>>}

\* C29: useContext returns the value of the nearest ancestor Provider of the
\* context (the innermost of nested ones, Providers of other contexts being
\* passed over), and the default value when no ancestor provides it; this is
\* the value the consumer displays.
C29_ContextIsNearestProvider ==
  \A f \in RenderedConsumers :
    /\ fibers[f].hooks[1].tag = "context"
    /\ fibers[f].hooks[1].state = NearestProvider(fibers[f].parent, "Theme")
    /\ fibers[f].child # NULL =>
         fibers[fibers[f].child].el.kids = <<Text(fibers[f].hooks[1].state)>>

\* a consumer under two nested Theme Providers has been committed with the
\* value of the inner one
C29_Witness ==
  /\ pc = "idle" /\ currentRoot # NULL /\ wipRoot = NULL
  /\ \E f \in RenderedConsumers \cap Units(fibers, currentRoot) :
       LET p == fibers[f].parent
           q == fibers[p].parent
       IN /\ fibers[p].type = "ThemeProvider" /\ fibers[q].type = "ThemeProvider"
          /\ fibers[p].el.val # fibers[q].el.val
          /\ fibers[f].hooks[1].state = fibers[p].el.val

\* the units of R that have been rendered and carry on a rendered unit of
\* the previous generation
PersistingUnits(fibs) ==
  {f \in FiberIds :
     /\ fibs[f].type = "R" /\ fibs[f].effectTag = "UPDATE"
     /\ fibs[f].hooks # <<>>
     /\ fibs[f].alternate # NULL
     /\ fibs[fibs[f].alternate].hooks # <<>>}

\* the position of the useRef call in R
RefIndex == 4

\* the application writes the current field of a ref object
WriteStep == refs' # refs /\ tick' = tick /\ calls' = calls

\* C30: a unit of R that persists across generations gets, from useRef, the
\* ref object of its previous generation, and the object holds what was last
\* written to it: a render neither replaces it nor writes its current field.
C30_RefPersists ==
  [][ /\ \A f \in PersistingUnits(fibers') :
           LET hook == fibers'[f].hooks[RefIndex]
               old == fibers'[fibers'[f].alternate].hooks[RefIndex]
           IN /\ hook.tag = "ref"
              /\ hook.ref = old.ref
              /\ refs'[hook.ref] # UNSET
      /\ \A r \in RefIds :
           (refs[r] # UNSET /\ refs'[r] # refs[r]) =>
             \/ WriteStep
             \/ /\ refs'[r] = UNSET
                /\ \A f \in PersistingUnits(fibers') :
                     fibers'[f].hooks[RefIndex].ref # r
    ]_vars

\* R has been rendered again after the application wrote 1 to its ref: the
\* new generation holds the same ref object, which still holds 1
C30_Witness ==
  /\ pc = "effects" /\ currentRoot # NULL /\ wipRoot = NULL
  /\ \E f \in PersistingUnits(fibers) \cap Units(fibers, currentRoot) :
       /\ fibers[f].hooks[RefIndex].ref = fibers[fibers[f].alternate].hooks[RefIndex].ref
       /\ refs[fibers[f].hooks[RefIndex].ref] = 1
       /\ seen["R"].batch # <<>>

\* ------------------------------------------------------- class components
\* The application of the class-component runs renders, into the first
\* container, nothing, K alone with either text, and a section holding one
\* or two K's.
ClassElements ==
  {NullEl, Klass(0), Klass(1),
   Host("section", UNSET, <<Klass(1)>>),
   Host("section", UNSET, <<Klass(0), Klass(1)>>),
   Host("section", UNSET, <<Klass(1), Klass(1)>>)}

ClassNext ==
  \/ \E e \in ClassElements : Render(e, 1)
  \/ IdleCallback
  \/ PerformUnit
  \/ Commit
  \/ WorkLoopEnd

ClassSpec == Init /\ [][ClassNext]_vars

\* the step is the unit of work of f, a unit of a class component tagged
\* UPDATE
ClassUpdate(f) ==
  /\ pc = "loop" /\ nextUnitOfWork = f /\ ~shouldYield
  /\ fibers[f].type \in ClassTypes
  /\ fibers[f].effectTag = "UPDATE"
  /\ visited' = Append(visited, f)

\* C31: the unit of work of a class-component unit tagged UPDATE takes over
\* the instance of the unit's previous generation: no instance is
\* constructed, the unit's instance is that object, the object's props are
\* the unit's props when render is called (its result shows them) and the
\* field the constructor set is as it was.
C31_InstanceReused ==
  [][\A f \in FiberIds :
       ClassUpdate(f) =>
         /\ fibers[f].alternate # NULL
         /\ LET old == fibers[fibers[f].alternate].instance IN
              /\ old # NULL
              /\ insts[old].made
              /\ fibers'[f].instance = old
              /\ insts'[old].props = fibers[f].el.val
              /\ insts'[old].first = insts[old].first
              /\ \A i \in InstIds \ {old} : insts'[i] = insts[i]
              /\ fibers'[f].child # NULL
              /\ fibers'[fibers'[f].child].el.kids = <<Text(fibers[f].el.val)>>
    ]_vars

\* a unit of K tagged UPDATE has been rendered with the instance of its
\* previous generation, whose props are no longer those it was constructed
\* with
C31_Witness ==
  \E f \in FiberIds :
    /\ fibers[f].type \in ClassTypes /\ fibers[f].effectTag = "UPDATE"
    /\ fibers[f].instance # NULL
    /\ fibers[f].alternate # NULL
    /\ fibers[fibers[f].alternate].instance = fibers[f].instance
    /\ insts[fibers[f].instance].props = fibers[f].el.val
    /\ insts[fibers[f].instance].props # insts[fibers[f].instance].first

\* ---------------------------------------------- components returning lists
\* The application of the list runs renders, into the first container,
\* nothing, W with an element and with null, and L with arrays of up to
\* three entries, null entries in every place.
ListElements ==
  LET a == Host("li", 1, <<>>)
      b == Host("li", 2, <<>>)
  IN {NullEl, Wrap(a), Wrap(NullEl),
      Lst(<<>>), Lst(<<a>>), Lst(<<NullEl>>),
      Lst(<<a, b>>), Lst(<<a, NullEl>>), Lst(<<NullEl, b>>),
      Lst(<<a, NullEl, b>>), Lst(<<a, b, NullEl>>)}

ListNext ==
  \/ \E e \in ListElements : Render(e, 1)
  \/ IdleCallback
  \/ PerformUnit
  \/ Commit
  \/ WorkLoopEnd

ListSpec == Init /\ [][ListNext]_vars

\* the units of L and W processed in the pass in flight
RenderedLists ==
  {f \in FiberIds : fibers[f].type \in ListTypes /\ InSeq(visited, f)}

\* the elements of the units c, c.sibling, ... in order
ChainEls(c) == [n \in 1..Len(Chain(fibers, c)) |-> fibers[Chain(fibers, c)[n]].el]

\* C32: once a unit of L or W has been processed, its child units are made
\* from the entries of the returned list that are not null, false or
\* undefined, one unit each, in the order of the list.
C32_ResultNormalised ==
  \A f \in RenderedLists :
    ChainEls(fibers[f].child) = SelectSeq(fibers[f].el.kids, Truthy)

\* ------------------------------------------- triggers from a render body
\* The application of the derived-state runs renders, into the first
\* container, nothing, component A, and component A with a body that calls
\* its setter; it calls A's setter from outside as well.
Deriving(el) == [el EXCEPT !.derive = TRUE]

DeriveElements ==
  {NullEl, CompA(TRUE, <<>>, FALSE, FALSE),
   Deriving(CompA(TRUE, <<>>, FALSE, FALSE))}

DeriveNext ==
  \/ \E e \in DeriveElements : Render(e, 1)
  \/ \E a \in Actions : SetState("A", a)
  \/ IdleCallback
  \/ PerformUnit
  \/ Commit
  \/ RunEffect
  \/ WorkLoopEnd

DeriveSpec == Init /\ [][DeriveNext]_vars

\* C33: commitRoot is called only at the end of a pass, when the
\* next-work-unit pointer is null, with the root in progress; the units
\* processed in the pass are exactly the units of that root's tree, the root
\* first; and the call takes the root out of progress, so that it is
\* committed once.
C33_CommitOncePerFullPass ==
  [][ /\ committed' # committed =>
           CommitStep /\ committed' = wipRoot
      /\ CommitStep =>
           /\ visited = PreOrder(fibers, wipRoot)
           /\ committed' = wipRoot
           /\ wipRoot' # wipRoot
    ]_vars

\* ------------------------------------------------- the frame of a removal
\* the units of the subtree of f
Subtree(fibs, f) ==
  {f} \cup {PreOrder(fibs, fibs[f].child)[n] :
              n \in 1..Len(PreOrder(fibs, fibs[f].child))}

\* the former siblings of the entries of the deletion list that the tree
\* about to be committed carries on
SurvivingSiblings ==
  {s \in FiberIds :
     /\ fibers[s].type # "FREE"
     /\ fibers[s].effectTag # "DELETION"
     /\ \E n \in 1..Len(deletions) :
          /\ deletions[n] # s
          /\ fibers[deletions[n]].parent = fibers[s].parent
     /\ \E g \in Units(fibers, wipRoot) : fibers[g].alternate = s}

\* C34: a commit with a deletion list leaves the subtrees of the surviving
\* former siblings of the entries alone: their output nodes that were
\* attached under the container are still attached, and none of the
\* cleanups their effect hooks hold is invoked by the commit.
C34_DeletionTouchesOnlySubtree ==
  [][CommitDone /\ currentRoot # NULL =>
       \A s \in SurvivingSiblings : \A u \in Subtree(fibers, s) :
         /\ (fibers[u].dom # NULL /\ Contains(dom, rootContainer, fibers[u].dom))
              => Contains(dom', rootContainer, fibers[u].dom)
         /\ \A i \in 1..Len(fibers[u].hooks) :
              fibers[u].hooks[i].cleanup # NULL =>
                CleanupCount(elog', fibers[u].hooks[i].cleanup) = 0
    ]_vars

\* ------------------------------------------------ the order of a commit
\* the units of the committed tree for which commitWork makes a call on the
\* output tree, in depth-first order (a unit, its children, its siblings)
Applied ==
  SelectSeq(PreOrder(fibers, fibers[currentRoot].child),
            LAMBDA f : /\ fibers[f].dom # NULL
                       /\ fibers[f].effectTag \in {"PLACEMENT", "UPDATE"})

\* the calls of the last commit other than removals
Placements == SelectSeq(mutations, LAMBDA e : e.op # "remove")

\* C35: in the calls a commit has made on the output tree, no removal comes
\* after a placement or an update, and the placements and updates are those
\* of the units of the new tree that own an output node, one call each, in
\* the depth-first order of the tree: appendChild for a unit tagged
\* PLACEMENT, updateDom for a unit tagged UPDATE.
C35_DeletionsThenDepthFirst ==
  pc = "effects" =>
    /\ \A i, j \in 1..Len(mutations) :
         i < j /\ mutations[j].op = "remove" => mutations[i].op = "remove"
    /\ Len(Placements) = Len(Applied)
    /\ \A n \in 1..Len(Placements) :
         /\ Placements[n].unit = Applied[n]
         /\ Placements[n].op =
              IF fibers[Applied[n]].effectTag = "PLACEMENT" THEN "append"
              ELSE "update"

\* a commit has removed a node, then updated a node and appended a node
C35_Witness ==
  /\ pc = "effects"
  /\ \E i, j, k \in 1..Len(mutations) :
       /\ mutations[i].op = "remove"
       /\ mutations[j].op = "update"
       /\ mutations[k].op = "append"
       /\ i < j /\ j < k

\* --------------------------------------------- every previous child counts
\* the number of places of the deletion list that hold o
Listed(dels, o) == Cardinality({n \in 1..Len(dels) : dels[n] = o})

\* the previous child o is carried on by exactly one of the units new, or
\* it is tagged DELETION and listed once
AccountedOnce(fibs, dels, new, o) ==
  LET links == {i \in 1..Len(new) : fibs[new[i]].alternate = o} IN
  \/ /\ Cardinality(links) = 1
     /\ fibs[o].effectTag # "DELETION"
     /\ Listed(dels, o) = 0
  \/ /\ links = {}
     /\ fibs[o].effectTag = "DELETION"
     /\ Listed(dels, o) = 1

\* C36: after the keyed reconciler has run on a parent, every child of the
\* parent's previous generation is either the previous generation of
\* exactly one new child, or tagged DELETION and once on the deletion list.
C36_EveryOldChildAccounted ==
  calls = 1 /\ fibers[2].alternate = 1 /\ fibers[2].parent = NULL =>
    LET old == Chain(fibers, fibers[1].child)
        new == Chain(fibers, fibers[2].child)
    IN \A j \in 1..Len(old) : AccountedOnce(fibers, deletions, new, old[j])

\* C37: no cleanup closure that an effect run has returned is invoked more
\* than once.
C37_CleanupAtMostOnce ==
  \A t \in Tokens : cleanupRuns[t] <= 1

\* ------------------------------------------------- the last render() call
\* the work loop is stopped with nothing in progress and a committed tree
LoopIdle ==
  /\ pc = "idle" /\ ~isWorkLoopRunning /\ idleCallbacks = 0
  /\ wipRoot = NULL /\ nextUnitOfWork = NULL
  /\ currentRoot # NULL

\* C38: once the work loop is idle, the committed root belongs to the
\* container of the last render() call and its children are the element
\* handed to that call.
C38_IdleShowsLastRender ==
  LoopIdle =>
    /\ fibers[currentRoot].dom = rootContainer
    /\ fibers[currentRoot].el.kids = <<lastElement>>

\* --------------------------------------------- two instances of a component
\* The application of the twin runs renders, into the first container,
\* nothing or a div holding component A twice, and calls the setter that
\* the first of the two instances has returned.
TwinElements ==
  {NullEl,
   Host("div", UNSET, <<CompA(TRUE, <<>>, FALSE, FALSE),
                        CompA(TRUE, <<>>, FALSE, FALSE)>>)}

TwinNext ==
  \/ \E e \in TwinElements : Render(e, 1)
  \/ \E a \in Actions : SetState("A", a)
  \/ IdleCallback
  \/ PerformUnit
  \/ Commit
  \/ RunEffect
  \/ WorkLoopEnd

TwinSpec == Init /\ [][TwinNext]_vars

\* the units of A of the committed tree, in the order of the tree
Instances ==
  SelectSeq(PreOrder(fibers, currentRoot), LAMBDA f : fibers[f].type = "A")

\* C39: the state cell of the second instance of A is its own: whatever is
\* handed to the setter of the first instance, the second instance reads
\* the initial value.
C39_InstancesHaveOwnState ==
  currentRoot # NULL /\ Len(Instances) = 2 =>
    fibers[Instances[2]].hooks[1].state = 0

\* ------------------------------------------------- render() after an abort
\* The application of the exception runs, with a host that keeps invoking
\* the idle callbacks that are outstanding.
ErrLiveSpec == Init /\ [][ErrNext]_vars /\ WF_tick(HandlerStep)

\* the body of a component of the element throws
RECURSIVE Throwing(_)
Throwing(el) ==
  \/ el.fail = "render"
  \/ \E i \in 1..Len(el.kids) : Throwing(el.kids[i])

\* after an aborted pass, render() has been called with an element whose
\* components do not throw, and its pass has not begun
RenderedAfterAbort ==
  /\ aborted /\ pc = "idle"
  /\ wipRoot # NULL /\ nextUnitOfWork = wipRoot
  /\ fibers[wipRoot].el.kids = <<lastElement>>
  /\ ~Throwing(lastElement)

\* the element of the last render() call is committed
LastRenderCommitted ==
  /\ wipRoot = NULL /\ currentRoot # NULL
  /\ fibers[currentRoot].el.kids = <<lastElement>>

\* C40: a render() call made after a pass was aborted by an exception of a
\* component leads to the commit of its element, unless the application
\* makes another call first.
C40_RenderAfterAbortCommits ==
  \A n \in 0..MaxCalls :
    (RenderedAfterAbort /\ calls = n) ~> (LastRenderCommitted \/ calls # n)

====
